---- MODULE Spec2Model ----
(***************************************************************************)
(* Lockstep: lockstep versioning and dependency-ordered publishing of the  *)
(* packages of a monorepo (src/src/lockstep.ts, src/src/cli.ts).           *)
(*                                                                         *)
(* The file system is the sequence `manifests` (one package.json per       *)
(* discovered directory, in discovery order) and `rootPkg` (the root       *)
(* package.json).  git and the registry client are external commands: each *)
(* call is logged in `log` in the order the code makes it, and each may    *)
(* fail.  Strings are TLA+ strings; the code's string operations           *)
(* (startsWith, includes, the regular expressions, template literals) are  *)
(* computed on them character by character.                                *)
(***************************************************************************)
EXTENDS Integers, Sequences, FiniteSets, TLC

VARIABLES
    manifests,      \* package.json of every discovered directory (index = directory)
    rootPkg,        \* the root package.json: [exists, version]
    pc,             \* position of the running operation
    opts,           \* options of the running operation
    err,            \* the error the operation threw ("" while none)
    packages,       \* WorkspaceInfo.packages of the running operation
    order,          \* publish: the result of topoSort
    idx,            \* loop index of the running for-loop (1-based)
    currentBranch,  \* publish: result of git rev-parse --abbrev-ref HEAD
    finalTag,       \* publish: the dist-tag handed to every publish command
    nextVer,        \* version: the bumped version
    running,        \* directories in which a publish command is executing
    log,            \* external effects, in the order the code performs them
    sorted,         \* result of a direct topoSort call (SpecSort)
    actualType,     \* version: the effective bump type
    start,          \* the files as they were when the process started
    repo,           \* version: what the git queries of type auto answered
    arg,            \* argument of a direct call of a pure method
    result          \* result of a direct call of a pure method

vars == <<manifests, rootPkg, pc, opts, err, packages, order, idx,
          currentBranch, finalTag, nextVer, running, log, sorted, actualType,
          start, repo, arg, result>>

-----------------------------------------------------------------------------
(* Bounds of the model                                                     *)

\* most packages in a workspace handed to buildWorkspace/topoSort directly
MaxPkgs == 3
\* most dependency entries (package, field, dependency name) in such a workspace
MaxEdges == 2
\* commit subjects since the last tag
MaxCommits == 2
\* digits of a generated version component
MaxDigits == 2
\* version operations run one after the other on a workspace
MaxOps == 3

-----------------------------------------------------------------------------
(* Constants of the program                                                *)

\* lockstep.ts:28-33
DEP_FIELDS == <<"dependencies", "devDependencies", "peerDependencies",
                "optionalDependencies">>

Fields == {DEP_FIELDS[i] : i \in 1..Len(DEP_FIELDS)}

-----------------------------------------------------------------------------
(* JSON values of a dependency map: a range is normally a string, but a    *)
(* manifest may hold any JSON value there (typeof range !== 'string').     *)

Str(s) == [typ |-> "string", val |-> s]
NonStr(s) == [typ |-> "number", val |-> s]
NoDeps == [f \in Fields |-> <<>>]

-----------------------------------------------------------------------------
(* String helpers (String.prototype.startsWith / includes, char access)    *)

\* s.charAt(i): "" outside the string
CharAt(s, i) == IF 1 <= i /\ i <= Len(s) THEN SubSeq(s, i, i) ELSE ""

startsWith(s, p) == Len(s) >= Len(p) /\ SubSeq(s, 1, Len(p)) = p

includes(s, p) ==
    \E i \in 1..(Len(s) - Len(p) + 1) : SubSeq(s, i, i + Len(p) - 1) = p

Digits == {"0", "1", "2", "3", "4", "5", "6", "7", "8", "9"}

DigitVal(c) ==
    CASE c = "0" -> 0 [] c = "1" -> 1 [] c = "2" -> 2 [] c = "3" -> 3
      [] c = "4" -> 4 [] c = "5" -> 5 [] c = "6" -> 6 [] c = "7" -> 7
      [] c = "8" -> 8 [] c = "9" -> 9

DigitChar(d) == CharAt("0123456789", d + 1)

\* end of the maximal run of digits of s that starts at position i (i-1 if none)
RECURSIVE DigitRunEnd(_, _)
DigitRunEnd(s, i) ==
    IF i <= Len(s) /\ CharAt(s, i) \in Digits THEN DigitRunEnd(s, i + 1) ELSE i - 1

(* A Number of the code is an IEEE-754 double.  The integers the model     *)
(* meets are written as the sequence of their decimal digits, most          *)
(* significant first, without leading zeros (<<0>> is zero).  Below 2^53    *)
(* every integer is a double; from 2^53 on only the even ones are, and a    *)
(* result in between is rounded to the neighbour with the even mantissa,    *)
(* i.e. to the multiple of 4.  Integers from 2^54 on (17 digits from        *)
(* 18014398509481984) are not among the inputs of the model.                *)

\* the digits of a string of digits
DigitSeq(s) == [i \in 1..Len(s) |-> DigitVal(CharAt(s, i))]

RECURSIVE Canon(_)
Canon(ds) == IF Len(ds) > 1 /\ Head(ds) = 0 THEN Canon(Tail(ds)) ELSE ds

\* a < b
NumLess(a, b) ==
    \/ Len(a) < Len(b)
    \/ /\ Len(a) = Len(b)
       /\ \E k \in 1..Len(a) :
             a[k] < b[k] /\ \A j \in 1..(k - 1) : a[j] = b[j]

\* 2^53 = Number.MAX_SAFE_INTEGER + 1
Two53 == <<9, 0, 0, 7, 1, 9, 9, 2, 5, 4, 7, 4, 0, 9, 9, 2>>

\* the integer n + 1
RECURSIVE Inc(_)
Inc(ds) ==
    IF Len(ds) = 0 THEN <<1>>
    ELSE IF ds[Len(ds)] < 9 THEN [ds EXCEPT ![Len(ds)] = @ + 1]
    ELSE Append(Inc(SubSeq(ds, 1, Len(ds) - 1)), 0)

\* the integer n - 1, n > 0
RECURSIVE Dec(_)
Dec(ds) ==
    IF ds[Len(ds)] > 0 THEN [ds EXCEPT ![Len(ds)] = @ - 1]
    ELSE Append(Dec(SubSeq(ds, 1, Len(ds) - 1)), 9)

Mod4(ds) ==
    ((IF Len(ds) > 1 THEN 10 * ds[Len(ds) - 1] ELSE 0) + ds[Len(ds)]) % 4

\* the double nearest to the integer n (ties to the even mantissa)
RoundToDouble(n) ==
    IF ~ NumLess(Two53, n) THEN n
    ELSE IF n[Len(n)] % 2 = 0 THEN n
    ELSE IF Mod4(Inc(n)) = 0 THEN Inc(n) ELSE Dec(n)

\* unary plus on a string of digits (+MA)
ToNumber(s) == RoundToDouble(Canon(DigitSeq(s)))

\* n + 1 in double arithmetic
PlusOne(n) == RoundToDouble(Inc(n))

\* `${n}` for a non-negative integer below 10^21
RECURSIVE ToString_(_)
ToString_(n) ==
    IF Len(n) = 0 THEN "" ELSE DigitChar(Head(n)) \o ToString_(Tail(n))

-----------------------------------------------------------------------------
(* Results of the methods: a returned value or a thrown Error              *)

Return(v) == [threw |-> "", value |-> v]
Throw(e) == [threw |-> e, value |-> <<>>]

ErrMissingTag == "--tag parameter is required for publish command"
ErrCycle == "Cycle detected in local dependency graph."
ErrVersions == "Lockstep requires all packages have the same version. Found: "
ErrSemver == "Not a semver version: "
ErrNotFound == "Package not found in workspace"
ErrCommand == "Command failed"
ErrWrite == "writeFileSync failed"

-----------------------------------------------------------------------------
(* buildWorkspace (lockstep.ts:149-182)                                    *)

\* packages: one WorkspacePackage per discovered directory, in discovery order
LoadPackages(ms) ==
    [i \in 1..Len(ms) |->
        [dir |-> i, name |-> ms[i].name, version |-> ms[i].version, data |-> ms[i]]]

\* new Map(packages.map(p => [p.name, p])): only has() is ever asked of it
ByNameKeys(pkgs) == {pkgs[i].name : i \in 1..Len(pkgs)}

\* insertion order of the keys of graph: first occurrence of every name
RECURSIVE GraphKeys(_, _)
GraphKeys(pkgs, i) ==
    IF i = 0 THEN <<>>
    ELSE LET ks == GraphKeys(pkgs, i - 1)
         IN  IF \E k \in 1..Len(ks) : ks[k] = pkgs[i].name
             THEN ks ELSE Append(ks, pkgs[i].name)

\* a variant of lines 169-177 that records a dependent once however many
\* of its fields list d
PushesOnce(p, d, f, byName) ==
    IF \E g \in 1..f : d \in DOMAIN p.data.deps[DEP_FIELDS[g]] /\ d \in byName
    THEN <<p.name>> ELSE <<>>

\* what the passes over DEP_FIELDS[1..f] of package p push onto graph[d].
\* The keys of one field are distinct, so each of them is pushed onto another
\* list and the order of Object.keys within a field does not show.
RECURSIVE PushesOfPackage(_, _, _, _)
PushesOfPackage(p, d, f, byName) ==
    IF f = 0 THEN <<>>
    ELSE PushesOfPackage(p, d, f - 1, byName)
         \o (IF d \in DOMAIN p.data.deps[DEP_FIELDS[f]] /\ d \in byName
             THEN <<p.name>> ELSE <<>>)

\* a variant of lines 165-166 that keeps the lists of the graph of an earlier
\* call instead of starting from empty ones
RECURSIVE DependentsKept(_, _, _, _)
DependentsKept(pkgs, d, i, byName) ==
    IF i = 0 THEN (IF result # <<>> THEN result[1].adj[d] ELSE <<>>)
    ELSE DependentsKept(pkgs, d, i - 1, byName)
         \o PushesOfPackage(pkgs[i], d, Len(DEP_FIELDS), byName)

\* graph[d] after the outer loop has handled packages 1..i
RECURSIVE Dependents(_, _, _, _)
Dependents(pkgs, d, i, byName) ==
    IF i = 0 THEN <<>>
    ELSE Dependents(pkgs, d, i - 1, byName)
         \o PushesOfPackage(pkgs[i], d, Len(DEP_FIELDS), byName)

BuildGraph(pkgs) ==
    LET byName == ByNameKeys(pkgs)
    IN  [keys |-> GraphKeys(pkgs, Len(pkgs)),
         adj  |-> [d \in byName |-> Dependents(pkgs, d, Len(pkgs), byName)]]

buildWorkspace(ms) ==
    LET pkgs == LoadPackages(ms)
    IN  [packages |-> pkgs, byName |-> ByNameKeys(pkgs), graph |-> BuildGraph(pkgs)]

-----------------------------------------------------------------------------
(* ensureAllSameVersion (lockstep.ts:190-200)                              *)

\* [...set]: the distinct versions in first-occurrence order
RECURSIVE VersionSet(_, _)
VersionSet(pkgs, i) ==
    IF i = 0 THEN <<>>
    ELSE LET vs == VersionSet(pkgs, i - 1)
         IN  IF \E k \in 1..Len(vs) : vs[k] = pkgs[i].version
             THEN vs ELSE Append(vs, pkgs[i].version)

RECURSIVE Join(_, _)
Join(ss, sep) ==
    IF Len(ss) = 0 THEN ""
    ELSE IF Len(ss) = 1 THEN ss[1]
    ELSE ss[1] \o sep \o Join(Tail(ss), sep)

\* a variant of lines 190-200 that takes the version of the first package
firstVersion(pkgs) ==
    IF Len(pkgs) = 0 THEN Throw(ErrVersions) ELSE Return(pkgs[1].version)

\* a variant of lines 190-200 that lets a workspace without packages pass
\* as version 0.0.0
ensureAtMostOneVersion(pkgs) ==
    LET set == VersionSet(pkgs, Len(pkgs))
    IN  IF Len(set) > 1 THEN Throw(ErrVersions \o Join(set, ", "))
        ELSE IF Len(set) = 0 THEN Return("0.0.0")
        ELSE Return(set[1])

ensureAllSameVersion(pkgs) ==
    LET set == VersionSet(pkgs, Len(pkgs))
    IN  IF Len(set) # 1 THEN Throw(ErrVersions \o Join(set, ", "))
        ELSE Return(set[1])

-----------------------------------------------------------------------------
(* semverBump (lockstep.ts:209-231)                                        *)

\* v.match(/^(\d+)\.(\d+)\.(\d+)(-.+)?$/): the ends of the three digit groups,
\* or <<>> when v does not match.  A digit group is followed by a character
\* that is no digit, so only the maximal run of digits can match.
SemverMatch(v) ==
    LET e1 == DigitRunEnd(v, 1)
        e2 == DigitRunEnd(v, e1 + 2)
        e3 == DigitRunEnd(v, e2 + 2)
    IN  IF /\ e1 >= 1
           /\ CharAt(v, e1 + 1) = "."
           /\ e2 >= e1 + 2
           /\ CharAt(v, e2 + 1) = "."
           /\ e3 >= e2 + 2
           /\ \/ e3 = Len(v)
              \/ /\ CharAt(v, e3 + 1) = "-"
                 /\ Len(v) >= e3 + 2
                 /\ ~ includes(SubSeq(v, e3 + 2, Len(v)), "\n")
                 /\ ~ includes(SubSeq(v, e3 + 2, Len(v)), "\r")
        THEN <<e1, e2, e3>>
        ELSE <<>>

\* a variant of line 211 that returns a string it cannot parse as it is
semverBumpLenient(v, type) ==
    LET m == SemverMatch(v)
    IN  IF m = <<>> THEN Return(v)
        ELSE Return(ToString_(ToNumber(SubSeq(v, 1, m[1]))) \o "."
                    \o ToString_(ToNumber(SubSeq(v, m[1] + 2, m[2]))) \o "."
                    \o ToString_(PlusOne(ToNumber(SubSeq(v, m[2] + 2, m[3])))))

semverBump(v, type) ==
    LET m == SemverMatch(v)
    IN  IF m = <<>> THEN Throw(ErrSemver \o v)
        ELSE LET MA == ToNumber(SubSeq(v, 1, m[1]))
                 MI == ToNumber(SubSeq(v, m[1] + 2, m[2]))
                 PA == ToNumber(SubSeq(v, m[2] + 2, m[3]))
                 major == IF type = "major" THEN PlusOne(MA) ELSE MA
                 minor == IF type = "major" THEN <<0>>
                          ELSE IF type = "minor" THEN PlusOne(MI) ELSE MI
                 patch == IF type = "major" \/ type = "minor" THEN <<0>>
                          ELSE IF type = "patch" THEN PlusOne(PA) ELSE PA
             IN  Return(ToString_(major) \o "." \o ToString_(minor) \o "."
                        \o ToString_(patch))

-----------------------------------------------------------------------------
(* preserveOperator (lockstep.ts:239-246)                                  *)

\* a variant of lines 240-245 without the test for ">="
preserveOperatorNoGte(oldRange, newVersion) ==
    IF startsWith(oldRange, "^") THEN "^" \o newVersion
    ELSE IF startsWith(oldRange, "~") THEN "~" \o newVersion
    ELSE IF startsWith(oldRange, "=") THEN "=" \o newVersion
    ELSE newVersion

preserveOperator(oldRange, newVersion) ==
    IF startsWith(oldRange, "^") THEN "^" \o newVersion
    ELSE IF startsWith(oldRange, "~") THEN "~" \o newVersion
    ELSE IF startsWith(oldRange, ">=") THEN ">=" \o newVersion
    ELSE IF startsWith(oldRange, "=") THEN "=" \o newVersion
    ELSE newVersion

-----------------------------------------------------------------------------
(* topoSort (lockstep.ts:256-290): Kahn's algorithm                        *)

\* inDeg.get(v) || 0
DegOf(inDeg, v) == IF v \in DOMAIN inDeg THEN inDeg[v] ELSE 0

\* inDeg.set(v, n)
DegSet(inDeg, v, n) == [w \in DOMAIN inDeg \cup {v} |-> IF w = v THEN n ELSE inDeg[w]]

\* lines 262-264: one pass over the list vs, from position k on
RECURSIVE CountEdges(_, _, _)
CountEdges(inDeg, vs, k) ==
    IF k > Len(vs) THEN inDeg
    ELSE CountEdges(DegSet(inDeg, vs[k], DegOf(inDeg, vs[k]) + 1), vs, k + 1)

\* lines 261-265: over graph.entries(), in the insertion order of the keys
RECURSIVE InDegrees(_, _, _)
InDegrees(inDeg, graph, k) ==
    IF k > Len(graph.keys) THEN inDeg
    ELSE InDegrees(CountEdges(inDeg, graph.adj[graph.keys[k]], 1), graph, k + 1)

\* line 268: pkgs.map(p => p.name).filter(n => (inDeg.get(n) || 0) === 0)
RECURSIVE ZeroDegreeNames(_, _, _)
ZeroDegreeNames(pkgs, inDeg, i) ==
    IF i > Len(pkgs) THEN <<>>
    ELSE (IF DegOf(inDeg, pkgs[i].name) = 0 THEN <<pkgs[i].name>> ELSE <<>>)
         \o ZeroDegreeNames(pkgs, inDeg, i + 1)

\* a variant of lines 277-281 that enqueues a dependent at the first decrement
RECURSIVE RelaxEager(_, _, _)
RelaxEager(st, vs, k) ==
    IF k > Len(vs) THEN st
    ELSE LET v == vs[k]
             currentDeg == st.inDeg[v] - 1
         IN  RelaxEager([st EXCEPT !.inDeg = DegSet(st.inDeg, v, currentDeg),
                                   !.q = IF v \in {@[j] : j \in 1..Len(@)}
                                            \/ v \in {st.out[j] : j \in 1..Len(st.out)}
                                         THEN @ ELSE Append(@, v)],
                        vs, k + 1)

\* a variant of lines 277-281 that puts a dependent at the front of the queue
RECURSIVE RelaxFront(_, _, _)
RelaxFront(st, vs, k) ==
    IF k > Len(vs) THEN st
    ELSE LET v == vs[k]
             currentDeg == st.inDeg[v] - 1
         IN  RelaxFront([st EXCEPT !.inDeg = DegSet(st.inDeg, v, currentDeg),
                                   !.q = IF currentDeg = 0 THEN <<v>> \o @ ELSE @],
                        vs, k + 1)

\* lines 277-281: decrement every dependent in vs[k..], enqueue it at zero
RECURSIVE Relax(_, _, _)
Relax(st, vs, k) ==
    IF k > Len(vs) THEN st
    ELSE LET v == vs[k]
             currentDeg == st.inDeg[v] - 1
         IN  Relax([st EXCEPT !.inDeg = DegSet(st.inDeg, v, currentDeg),
                              !.q = IF currentDeg = 0 THEN Append(@, v) ELSE @],
                   vs, k + 1)

\* graph.get(n) || []
AdjOf(graph, n) == IF n \in DOMAIN graph.adj THEN graph.adj[n] ELSE <<>>

\* one iteration of the while loop (lines 273-281)
KahnStep(st, graph) ==
    LET n == Head(st.q)
    IN  Relax([st EXCEPT !.q = Tail(@), !.out = Append(@, n)], AdjOf(graph, n), 1)

\* the while loop (lines 272-282)
RECURSIVE KahnLoop(_, _)
KahnLoop(st, graph) ==
    IF Len(st.q) = 0 THEN st ELSE KahnLoop(KahnStep(st, graph), graph)

\* a variant of lines 258-269 that starts with every package in the queue
KahnInitAll(pkgs, graph) ==
    LET zero == [n \in ByNameKeys(pkgs) |-> 0]
    IN  [inDeg |-> InDegrees(zero, graph, 1),
         q |-> [i \in 1..Len(pkgs) |-> pkgs[i].name], out |-> <<>>]

\* the state before the loop (lines 258-269)
KahnInit(pkgs, graph) ==
    LET zero == [n \in ByNameKeys(pkgs) |-> 0]
        inDeg == InDegrees(zero, graph, 1)
    IN  [inDeg |-> inDeg, q |-> ZeroDegreeNames(pkgs, inDeg, 1), out |-> <<>>]

\* lines 284-289
SortResult(out, pkgs) ==
    IF Len(out) # Len(pkgs) THEN Throw(ErrCycle) ELSE Return(out)

topoSort(pkgs, graph) ==
    SortResult(KahnLoop(KahnInit(pkgs, graph), graph).out, pkgs)

-----------------------------------------------------------------------------
(* The workspaces the model starts from.  The code compares package names  *)
(* only for equality, so names are taken up to renaming: the i-th package  *)
(* carries one of the names used before it or the next unused name.  Two   *)
(* manifests may declare the same name (findPackageDirs collects every     *)
(* directory holding a package.json).                                      *)

AllNames == <<"a", "b", "c", "d", "e", "f">>
ExtName == "x"

Max(S) == CHOOSE m \in S : \A n \in S : n <= m

NameSeqs(n) ==
    LET ok(nm) == \A i \in 1..n : nm[i] <= 1 + Max({0} \cup {nm[j] : j \in 1..(i - 1)})
    IN  {[i \in 1..n |-> AllNames[nm[i]]] : nm \in {f \in [1..n -> 1..n] : ok(f)}}

\* the subsets of 1..m with at most k elements
RECURSIVE SmallSubsets(_, _)
SmallSubsets(m, k) ==
    IF m = 0 \/ k = 0 THEN {{}}
    ELSE SmallSubsets(m - 1, k) \cup {s \cup {m} : s \in SmallSubsets(m - 1, k - 1)}

\* a dependency entry: package i lists dep in field with the given range
Entry(i, field, dep, range) == [pkg |-> i, field |-> field, dep |-> dep, range |-> range]

\* package.json of package i, given the entries of the workspace; `other` are
\* the fields the code does not look at ([key: string]: any)
Manifest(i, name, version, entries) ==
    [name |-> name, version |-> version, other |-> [license |-> "MIT"],
     deps |-> [f \in Fields |->
        LET mine == {e \in entries : e.pkg = i /\ e.field = f}
        IN  [d \in {e.dep : e \in mine} |->
                (CHOOSE e \in mine : e.dep = d).range]]]

\* workspaces of n packages with the given names, all at version 1.0.0, with
\* at most maxEdges entries, each a caret range in one of `fields`
GraphWorkspaces(names, fields, depNames, maxEdges) ==
    LET n == Len(names)
        fs == CHOOSE q \in [1..Cardinality(fields) -> fields] :
                  \A f \in fields : \E k \in DOMAIN q : q[k] = f
        ds == CHOOSE q \in [1..Cardinality(depNames) -> depNames] :
                  \A d \in depNames : \E k \in DOMAIN q : q[k] = d
        nf == Len(fs)
        nd == Len(ds)
        \* entry number c in 1..n*nf*nd
        decode(c) == Entry(((c - 1) \div (nf * nd)) + 1,
                           fs[(((c - 1) \div nd) % nf) + 1],
                           ds[((c - 1) % nd) + 1],
                           Str("^1.0.0"))
    IN  {[i \in 1..n |-> Manifest(i, names[i], "1.0.0", {decode(c) : c \in cs})] :
            cs \in SmallSubsets(n * nf * nd, maxEdges)}

NamesOf(names) == {names[i] : i \in 1..Len(names)}

SortFields == {"dependencies", "peerDependencies"}

\* the workspaces SpecSort starts from: up to MaxEdges entries spread over two
\* fields (an edge may be recorded twice), or one more in a single field
InSortWorkspaces(ms) ==
    \E n \in 0..MaxPkgs : \E names \in NameSeqs(n) :
        \/ ms \in GraphWorkspaces(names, SortFields,
                                   NamesOf(names) \cup {ExtName}, MaxEdges)
        \/ ms \in GraphWorkspaces(names, {"dependencies"},
                                   NamesOf(names), MaxEdges + 1)

-----------------------------------------------------------------------------
(* Initial values of the variables of one operation                        *)

NoOpts == [cmd |-> "none"]

\* a repository in which git describe finds no tag
NoEnv == [describe |-> "", logOk |-> FALSE, logOut |-> ""]

\* no pure method is called directly
NoCall == arg = <<>> /\ result = <<>>

IdleLocals ==
    /\ pc = "idle"
    /\ opts = NoOpts
    /\ err = ""
    /\ packages = <<>>
    /\ order = <<>>
    /\ idx = 0
    /\ currentBranch = ""
    /\ finalTag = ""
    /\ nextVer = ""
    /\ running = {}
    /\ log = <<>>
    /\ sorted = Return(<<>>)
    /\ actualType = ""
    /\ start = [manifests |-> manifests, rootPkg |-> rootPkg]
    /\ repo = NoEnv

NoRoot == [exists |-> FALSE, version |-> ""]

-----------------------------------------------------------------------------
(* SpecSort: buildWorkspace and topoSort called directly on a workspace    *)

InitSort ==
    /\ InSortWorkspaces(manifests)
    /\ rootPkg = NoRoot
    /\ IdleLocals
    /\ NoCall

Sort ==
    /\ pc = "idle"
    /\ LET ws == buildWorkspace(manifests)
       IN  /\ packages' = ws.packages
           /\ sorted' = topoSort(ws.packages, ws.graph)
    /\ pc' = "sorted"
    /\ UNCHANGED <<manifests, rootPkg, opts, err, order, idx, currentBranch,
                   finalTag, nextVer, running, log, actualType, start, repo, arg, result>>

NextSort == Sort

SpecSort == InitSort /\ [][NextSort]_vars

-----------------------------------------------------------------------------
(* SpecKahn: topoSort called directly on packages with pairwise distinct   *)
(* names and a graph over their names, one iteration of its while loop at  *)
(* a time.  The graph is in `arg`, the state of the loop (inDeg, q, out)   *)
(* in `result`.  The graph is given by the sequence of its edges           *)
(* <<dependency, dependent>>, in the order in which they were pushed.      *)

\* graph.get(n): the dependents of n in the order of the edges
DependentsIn(es, n) ==
    LET mine == SelectSeq(es, LAMBDA e : e[1] = n)
    IN  [k \in 1..Len(mine) |-> mine[k][2]]

GraphOf(names, es) ==
    [keys |-> names,
     adj  |-> [n \in {names[i] : i \in 1..Len(names)} |-> DependentsIn(es, n)]]

InitKahn ==
    /\ \E n \in 0..MaxPkgs :
          manifests = [i \in 1..n |-> Manifest(i, AllNames[i], "1.0.0", {})]
    /\ rootPkg = NoRoot
    /\ IdleLocals
    /\ NoCall

\* the call topoSort(pkgs, graph) and lines 258-269; the graph has the edges
\* es.  The order of the edges of different dependencies does not show in
\* the graph: they are taken grouped by dependency.
KahnStart(es) ==
    /\ pc = "idle"
    /\ \A k \in 1..(Len(es) - 1) :
          \A i, j \in 1..Len(manifests) :
              (manifests[i].name = es[k][1] /\ manifests[j].name = es[k + 1][1]) => i <= j
    /\ LET pkgs == LoadPackages(manifests)
           graph == GraphOf([i \in 1..Len(pkgs) |-> pkgs[i].name], es)
       IN  /\ packages' = pkgs
           /\ arg' = graph
           /\ result' = KahnInit(pkgs, graph)
    /\ pc' = "kahn_loop"
    /\ UNCHANGED <<manifests, rootPkg, opts, err, order, idx, currentBranch, finalTag,
                   nextVer, running, log, sorted, actualType, start, repo>>

\* lines 272-282: one iteration of while (q.length)
KahnIterate ==
    /\ pc = "kahn_loop"
    /\ Len(result.q) > 0
    /\ result' = KahnStep(result, arg)
    /\ UNCHANGED <<manifests, rootPkg, pc, opts, err, packages, order, idx,
                   currentBranch, finalTag, nextVer, running, log, sorted, actualType,
                   start, repo, arg>>

\* lines 284-289: the queue is empty
KahnFinish ==
    /\ pc = "kahn_loop"
    /\ Len(result.q) = 0
    /\ sorted' = SortResult(result.out, packages)
    /\ pc' = "sorted"
    /\ UNCHANGED <<manifests, rootPkg, opts, err, packages, order, idx, currentBranch,
                   finalTag, nextVer, running, log, actualType, start, repo, arg, result>>

NextKahn ==
    \/ LET S == {manifests[i].name : i \in 1..Len(manifests)}
       IN  \E l \in 0..MaxEdges : \E es \in [1..l -> S \X S] : KahnStart(es)
    \/ KahnIterate
    \/ KahnFinish

SpecKahn == InitKahn /\ [][NextKahn]_vars

\* the call is not suspended: topoSort is synchronous code
SpecKahnFair == SpecKahn /\ WF_vars(NextKahn)

-----------------------------------------------------------------------------
(* SpecResort: topoSort called a second time on the same workspace; the    *)
(* result of the first call is kept in `result`                            *)

Resort ==
    /\ pc = "sorted"
    /\ LET ws == buildWorkspace(manifests)
       IN  /\ packages' = ws.packages
           /\ sorted' = topoSort(ws.packages, ws.graph)
    /\ result' = <<sorted>>
    /\ pc' = "resorted"
    /\ UNCHANGED <<manifests, rootPkg, opts, err, order, idx, currentBranch,
                   finalTag, nextVer, running, log, actualType, start, repo, arg>>

NextResort == Sort \/ Resort

SpecResort == InitSort /\ [][NextResort]_vars

-----------------------------------------------------------------------------
(* SpecBuild: buildWorkspace called twice on the same Lockstep object; the *)
(* graphs it returns are collected in `result`                             *)

Build ==
    /\ pc \in {"idle", "built"}
    /\ LET ws == buildWorkspace(manifests)
       IN  /\ packages' = ws.packages
           /\ result' = Append(result, ws.graph)
    /\ pc' = IF pc = "idle" THEN "built" ELSE "rebuilt"
    /\ UNCHANGED <<manifests, rootPkg, opts, err, order, idx, currentBranch,
                   finalTag, nextVer, running, log, sorted, actualType, start, repo, arg>>

NextBuild == Build

SpecBuild == InitSort /\ [][NextBuild]_vars

-----------------------------------------------------------------------------
(* External commands.  Every call is appended to `log` when it returns:    *)
(* kind is "read" (findPackageDirs + readJSON), "write" (writeJSON),       *)
(* "git" or "publish"; what is the command line or the file written.       *)

Event(kind, what, dir, ok) == [kind |-> kind, what |-> what, dir |-> dir, ok |-> ok]

GitRevParse == "git rev-parse --abbrev-ref HEAD"
GitPush == "git push --follow-tags"
GitAdd == "git add ."
GitCommit(msg) == "git commit -m \"" \o msg \o "\""
\* a variant of line 453 that tags the version the packages had before
GitTagOfCurrent(v) == "git tag v" \o start.manifests[1].version
GitTag(v) == "git tag v" \o v

\* lines 496-510: the publish command of the configured package manager
PublishCommand(pm, access, tag, dry) ==
    LET args == "--access " \o access \o " --tag " \o tag
        flag == IF dry THEN "--dry-run" ELSE ""
    IN  IF pm = "pnpm" THEN "pnpm publish " \o args \o " " \o flag
        ELSE IF pm = "yarn" THEN "npm publish " \o args \o " " \o flag
        ELSE "npm publish " \o args \o " " \o flag

\* a variant of line 479 that also exempts the main branches
FinalTagMainExempt(tag, branch) ==
    IF tag = "latest" \/ branch \in {"main", "master"} THEN tag
    ELSE branch \o "-" \o tag

\* line 479
FinalTag(tag, branch) == IF tag = "latest" THEN "latest" ELSE branch \o "-" \o tag

\* line 490: packages.find(x => x.name === name): the first match, 0 if none
FindPackage(pkgs, name) ==
    IF \E i \in 1..Len(pkgs) : pkgs[i].name = name
    THEN CHOOSE i \in 1..Len(pkgs) :
            /\ pkgs[i].name = name
            /\ \A j \in 1..(i - 1) : pkgs[j].name # name
    ELSE 0

\* a variant of line 516 without the dry-run test
ShouldPushIgnoringDry(o) == o.gitPush

\* line 516
ShouldPush(o) == o.gitPush /\ ~ o.dry

\* a variant of line 469 that accepts every tag
TagNeverMissing(o) == FALSE

\* line 469: !tag
TagMissing(o) == o.tag = ""

-----------------------------------------------------------------------------
(* publish (lockstep.ts:466-521)                                           *)

Tags == {"", "latest", "alpha"}
Branches == {"main", "feature-x"}
\* access and the package manager only shape the command line: two settings
Settings == {[access |-> "public", pm |-> "npm"], [access |-> "restricted", pm |-> "pnpm"]}

PublishOptions ==
    {[cmd |-> "publish", tag |-> t, dry |-> d, gitPush |-> g,
      access |-> c.access, pm |-> c.pm] :
        t \in Tags, d \in BOOLEAN, g \in BOOLEAN, c \in Settings}

Fail(e) == pc' = "failed" /\ err' = e

\* lines 467-486: the tag check, buildWorkspace, topoSort and the branch query.
\* branch = "" stands for a failing git rev-parse.
PublishBegin(o, branch) ==
    /\ pc = "idle"
    /\ opts' = o
    /\ IF TagMissing(o)
       THEN /\ Fail(ErrMissingTag)
            /\ UNCHANGED <<packages, order, idx, currentBranch, finalTag, log>>
       ELSE LET ws == buildWorkspace(manifests)
                res == topoSort(ws.packages, ws.graph)
                read == Event("read", "package.json", 0, TRUE)
            IN  /\ packages' = ws.packages
                /\ IF res.threw # ""
                   THEN /\ Fail(res.threw)
                        /\ log' = Append(log, read)
                        /\ UNCHANGED <<order, idx, currentBranch, finalTag>>
                   ELSE /\ order' = res.value
                        /\ log' = log \o <<read, Event("git", GitRevParse, 0, branch # "")>>
                        /\ IF branch = ""
                           THEN /\ Fail(ErrCommand)
                                /\ UNCHANGED <<idx, currentBranch, finalTag>>
                           ELSE /\ currentBranch' = branch
                                /\ finalTag' = FinalTag(o.tag, branch)
                                /\ idx' = 1
                                /\ pc' = "publish_loop"
                                /\ err' = err
    /\ UNCHANGED <<manifests, rootPkg, nextVer, running, sorted,
                   actualType, start, repo, arg, result>>

\* lines 489-512: the loop body up to the start of the publish command
PublishExec ==
    /\ pc = "publish_loop"
    /\ idx <= Len(order)
    /\ LET p == FindPackage(packages, order[idx])
       IN  IF p = 0
           THEN /\ Fail(ErrNotFound)
                /\ UNCHANGED running
           ELSE /\ running' = running \cup {packages[p].dir}
                /\ pc' = "publish_exec"
                /\ err' = err
    /\ UNCHANGED <<manifests, rootPkg, opts, packages, order, idx, currentBranch,
                   finalTag, nextVer, log, sorted,
                   actualType, start, repo, arg, result>>

\* a variant of line 512 that swallows the error of execSync
PublishResultContinue(ok) ==
    pc' = "publish_loop" /\ idx' = idx + 1 /\ err' = err

\* line 512: a throwing execSync leaves the loop and the method
PublishResult(ok) ==
    IF ok
    THEN pc' = "publish_loop" /\ idx' = idx + 1 /\ err' = err
    ELSE Fail(ErrCommand) /\ idx' = idx

\* line 512: execSync returns (ok) or throws
PublishReturn(ok) ==
    /\ pc = "publish_exec"
    /\ LET p == FindPackage(packages, order[idx])
       IN  /\ log' = Append(log, Event("publish",
                        PublishCommand(opts.pm, opts.access, finalTag, opts.dry),
                        packages[p].dir, ok))
           /\ running' = running \ {packages[p].dir}
    /\ PublishResult(ok)
    /\ UNCHANGED <<manifests, rootPkg, opts, packages, order, currentBranch,
                   finalTag, nextVer, sorted,
                   actualType, start, repo, arg, result>>

\* a variant of lines 515-521 that tags the release before it pushes
PublishEndTagging(ok) ==
    /\ pc = "publish_loop"
    /\ idx > Len(order)
    /\ IF ShouldPush(opts)
       THEN /\ log' = log \o <<Event("git", GitTag(finalTag), 0, TRUE),
                                Event("git", GitPush, 0, ok)>>
            /\ IF ok THEN pc' = "done" /\ err' = err ELSE Fail(ErrCommand)
       ELSE /\ ok
            /\ pc' = "done"
            /\ UNCHANGED <<log, err>>
    /\ UNCHANGED <<manifests, rootPkg, opts, packages, order, idx, currentBranch,
                   finalTag, nextVer, running, sorted,
                   actualType, start, repo, arg, result>>

\* lines 515-521: after the loop
PublishEnd(ok) ==
    /\ pc = "publish_loop"
    /\ idx > Len(order)
    /\ IF ShouldPush(opts)
       THEN /\ log' = Append(log, Event("git", GitPush, 0, ok))
            /\ IF ok THEN pc' = "done" /\ err' = err ELSE Fail(ErrCommand)
       ELSE /\ ok
            /\ pc' = "done"
            /\ UNCHANGED <<log, err>>
    /\ UNCHANGED <<manifests, rootPkg, opts, packages, order, idx, currentBranch,
                   finalTag, nextVer, running, sorted,
                   actualType, start, repo, arg, result>>

NextPublish ==
    \/ \E o \in PublishOptions, b \in Branches \cup {""} : PublishBegin(o, b)
    \/ PublishExec
    \/ \E ok \in BOOLEAN : PublishReturn(ok)
    \/ \E ok \in BOOLEAN : PublishEnd(ok)

\* the workspaces publish is run on
InPublishWorkspaces(ms) ==
    \E n \in 0..MaxPkgs : \E names \in NameSeqs(n) :
        ms \in GraphWorkspaces(names, {"dependencies"}, NamesOf(names), MaxEdges)

InitPublish ==
    /\ InPublishWorkspaces(manifests)
    /\ rootPkg = NoRoot
    /\ IdleLocals
    /\ NoCall

SpecPublish == InitPublish /\ [][NextPublish]_vars

-----------------------------------------------------------------------------
(* determineVersionType (lockstep.ts:313-380)                              *)

Whitespace == {" ", "\t", "\n", "\r"}

RECURSIVE TrimStart(_)
TrimStart(s) ==
    IF Len(s) > 0 /\ CharAt(s, 1) \in Whitespace THEN TrimStart(Tail(s)) ELSE s

RECURSIVE TrimEnd(_)
TrimEnd(s) ==
    IF Len(s) > 0 /\ CharAt(s, Len(s)) \in Whitespace
    THEN TrimEnd(SubSeq(s, 1, Len(s) - 1)) ELSE s

\* String.prototype.trim
Trim(s) == TrimEnd(TrimStart(s))

\* s.split('\n'), from position i on, cur = the line collected so far
RECURSIVE SplitLines(_, _, _)
SplitLines(s, i, cur) ==
    IF i > Len(s) THEN <<cur>>
    ELSE IF CharAt(s, i) = "\n" THEN <<cur>> \o SplitLines(s, i + 1, "")
    ELSE SplitLines(s, i + 1, cur \o CharAt(s, i))

\* .filter(line => line.trim())
RECURSIVE NonBlank(_)
NonBlank(ls) ==
    IF Len(ls) = 0 THEN <<>>
    ELSE (IF Trim(Head(ls)) # "" THEN <<Head(ls)>> ELSE <<>>) \o NonBlank(Tail(ls))

\* rest matches /^(\(.+\))?:/ : a colon, or a parenthesised non-empty scope
\* (any characters but a line break) followed by a colon
ScopeColon(rest) ==
    \/ startsWith(rest, ":")
    \/ /\ startsWith(rest, "(")
       /\ \E j \in 3..(Len(rest) - 1) :
             /\ CharAt(rest, j) = ")"
             /\ CharAt(rest, j + 1) = ":"
             /\ ~ includes(SubSeq(rest, 2, j - 1), "\n")

\* commit.match(/^(w1|w2|...)(\(.+\))?:/)
MatchesType(commit, words) ==
    \E w \in words :
        startsWith(commit, w) /\ ScopeColon(SubSeq(commit, Len(w) + 1, Len(commit)))

FixWords == {"fix", "docs", "style", "refactor", "test", "chore"}

\* lines 348-363: the flag one commit subject sets
CommitFlag(commit) ==
    IF includes(commit, "BREAKING CHANGE") \/ includes(commit, "!:") THEN "breaking"
    ELSE IF MatchesType(commit, {"feat"}) THEN "feature"
    ELSE IF MatchesType(commit, FixWords) THEN "fix"
    ELSE "none"

\* a variant of lines 366-379 that tests the feature flag first
ClassifyFeatureFirst(commitLines) ==
    LET flags == {CommitFlag(commitLines[k]) : k \in 1..Len(commitLines)}
    IN  IF "feature" \in flags THEN "minor"
        ELSE IF "breaking" \in flags THEN "major"
        ELSE "patch"

\* lines 340-379: the bump type of the commit subjects
ClassifyCommits(commitLines) ==
    LET flags == {CommitFlag(commitLines[k]) : k \in 1..Len(commitLines)}
    IN  IF "breaking" \in flags THEN "major"
        ELSE IF "feature" \in flags THEN "minor"
        ELSE IF "fix" \in flags THEN "patch"
        ELSE "patch"

GitDescribe == "git describe --tags --abbrev=0"
GitLog(tag) == "git log " \o tag \o "..HEAD --pretty=format:\"%s\""

\* a variant of lines 314-335 whose default is a minor bump
determineVersionTypeMinorDefault(env) ==
    IF env.describe = ""
    THEN [type |-> "minor", calls |-> <<Event("git", GitDescribe, 0, FALSE)>>]
    ELSE LET d == Event("git", GitDescribe, 0, TRUE)
             l == Event("git", GitLog(env.describe), 0, env.logOk)
             commits == Trim(env.logOut)
         IN  IF ~ env.logOk \/ commits = "" THEN [type |-> "minor", calls |-> <<d, l>>]
             ELSE [type |-> ClassifyCommits(NonBlank(SplitLines(commits, 1, ""))),
                   calls |-> <<d, l>>]

\* The repository as the two git queries see it: describe = the last tag ("" if
\* git describe fails: no tag), logOk/logOut = the outcome of git log.
\* The result: the bump type and the git calls made.
determineVersionType(env) ==
    IF env.describe = ""
    THEN [type |-> "patch", calls |-> <<Event("git", GitDescribe, 0, FALSE)>>]
    ELSE LET d == Event("git", GitDescribe, 0, TRUE)
             l == Event("git", GitLog(env.describe), 0, env.logOk)
             commits == Trim(env.logOut)
         IN  IF ~ env.logOk THEN [type |-> "patch", calls |-> <<d, l>>]
             ELSE IF Trim(commits) = "" THEN [type |-> "patch", calls |-> <<d, l>>]
             ELSE [type |-> ClassifyCommits(NonBlank(SplitLines(commits, 1, ""))),
                   calls |-> <<d, l>>]

-----------------------------------------------------------------------------
(* SpecBump: semverBump called directly on the version                     *)
(* major.minor.patch[suffix].  The components are the strings of up to     *)
(* MaxDigits digits 0 and 9 (leading zeros, carries), the digits of the    *)
(* documented examples, and the integers around 2^53.                      *)

\* the strings over the characters S of length 1..n
RECURSIVE StringsUpTo(_, _)
StringsUpTo(S, n) ==
    IF n = 0 THEN {}
    ELSE LET shorter == StringsUpTo(S, n - 1)
         IN  S \cup shorter \cup {q \o c : q \in {r \in shorter : Len(r) = n - 1}, c \in S}

Numerals ==
    StringsUpTo({"0", "9"}, MaxDigits) \cup {"1", "2", "3"}
    \cup {"9007199254740991", "9007199254740992", "9007199254740993"}

Suffixes == {"", "-alpha.1"}

BumpTypes == {"major", "minor", "patch"}

BumpArgs == [major : Numerals, minor : Numerals, patch : Numerals, suffix : Suffixes,
             type : BumpTypes]

\* the version string of an argument
VersionString(a) == a.major \o "." \o a.minor \o "." \o a.patch \o a.suffix

InitBump ==
    /\ manifests = <<>>
    /\ rootPkg = NoRoot
    /\ IdleLocals
    /\ arg \in BumpArgs
    /\ result = <<>>

Bump ==
    /\ pc = "idle"
    /\ result' = semverBump(VersionString(arg), arg.type)
    /\ pc' = "bumped"
    /\ UNCHANGED <<manifests, rootPkg, opts, err, packages, order, idx, currentBranch,
                   finalTag, nextVer, running, log, sorted, actualType, start, repo,
                   arg>>

NextBump == Bump

SpecBump == InitBump /\ [][NextBump]_vars

-----------------------------------------------------------------------------
(* SpecOperator: preserveOperator called directly, and once more on its    *)
(* own result.  The old range is a prefix followed by a body; the new      *)
(* version is one semverBump returns.                                      *)

RangePrefixes ==
    {"", "^", "~", ">=", "=", ">", "<", "<=", "==", "=>", "~>", "^~", " ^", "v",
     "workspace:", "1.x || >="}

RangeBodies == {"", "1.0.0", "1.2.3 <2.0.0", "*"}

NewVersions == {"1.0.1", "1.1.0", "2.0.0", "10.20.31"}

OperatorArgs ==
    {[oldRange |-> p \o b, newVersion |-> v] :
        p \in RangePrefixes, b \in RangeBodies, v \in NewVersions}

InitOperator ==
    /\ manifests = <<>>
    /\ rootPkg = NoRoot
    /\ IdleLocals
    /\ arg \in OperatorArgs
    /\ result = <<>>

Preserve ==
    /\ pc = "idle"
    /\ LET once == preserveOperator(arg.oldRange, arg.newVersion)
       IN  result' = [once |-> once, twice |-> preserveOperator(once, arg.newVersion)]
    /\ pc' = "preserved"
    /\ UNCHANGED <<manifests, rootPkg, opts, err, packages, order, idx, currentBranch,
                   finalTag, nextVer, running, log, sorted, actualType, start, repo,
                   arg>>

NextOperator == Preserve

SpecOperator == InitOperator /\ [][NextOperator]_vars

-----------------------------------------------------------------------------
(* SpecClassify: determineVersionType called directly in a repository that *)
(* has a tag and, since the tag, the commits whose subjects are `arg`      *)
(* (git log prints one subject per line).                                  *)

\* git keeps white space at the start of a subject (git commit -m " feat: x")
Subjects ==
    {"feat: x", "fix: y", "chore: z", "feat!: x", "feat(api): x", "feat(): x",
     "update readme", "docs: BREAKING CHANGE", "feature: x", "refactor(core)!: y",
     " feat: x"}

\* the sequences over S of length 1..n
RECURSIVE SeqsUpTo(_, _)
SeqsUpTo(S, n) ==
    IF n = 0 THEN {}
    ELSE LET shorter == SeqsUpTo(S, n - 1)
         IN  {<<x>> : x \in S} \cup shorter
             \cup {Append(q, x) : q \in {r \in shorter : Len(r) = n - 1}, x \in S}

\* the repository after the commits with the given subjects
RepoWith(subjects) == [describe |-> "v1.0.0", logOk |-> TRUE, logOut |-> Join(subjects, "\n")]

InitClassify ==
    /\ manifests = <<>>
    /\ rootPkg = NoRoot
    /\ IdleLocals
    /\ arg \in SeqsUpTo(Subjects, MaxCommits)
    /\ result = <<>>

Classify ==
    /\ pc = "idle"
    /\ repo' = RepoWith(arg)
    /\ result' = determineVersionType(RepoWith(arg)).type
    /\ pc' = "classified"
    /\ UNCHANGED <<manifests, rootPkg, opts, err, packages, order, idx, currentBranch,
                   finalTag, nextVer, running, log, sorted, actualType, start, arg>>

NextClassify == Classify

SpecClassify == InitClassify /\ [][NextClassify]_vars

-----------------------------------------------------------------------------------------------------------------------------------------------------
(* SpecReclassify: determineVersionType run in a repository whose commits  *)
(* since the tag have the subjects `arg` (in the order git log prints      *)
(* them) and then in a second repository whose subjects are a              *)
(* rearrangement of the first or the first followed by one more subject.   *)
(* `result` collects [subjects, type, how] of the runs.                    *)

InitReclassify ==
    /\ manifests = <<>>
    /\ rootPkg = NoRoot
    /\ IdleLocals
    /\ arg \in SeqsUpTo(Subjects, MaxCommits)
    /\ result = <<>>

Run(subjects, how) ==
    /\ repo' = RepoWith(subjects)
    /\ result' = Append(result, [subjects |-> subjects,
                                 type |-> determineVersionType(RepoWith(subjects)).type,
                                 how |-> how])
    /\ UNCHANGED <<manifests, rootPkg, opts, err, packages, order, idx, currentBranch,
                   finalTag, nextVer, running, log, sorted, actualType, start, arg>>

ClassifyFirst ==
    /\ pc = "idle"
    /\ pc' = "classified"
    /\ Run(arg, "first")

ClassifyRearranged ==
    /\ pc = "classified"
    /\ pc' = "reclassified"
    /\ \E q \in [1..Len(arg) -> 1..Len(arg)] :
          /\ \A i, j \in 1..Len(arg) : q[i] = q[j] => i = j
          /\ Run([k \in 1..Len(arg) |-> arg[q[k]]], "rearranged")

ClassifyExtended ==
    /\ pc = "classified"
    /\ pc' = "reclassified"
    /\ \E more \in Subjects :
          \/ Run(Append(arg, more), "extended")
          \/ Run(<<more>> \o arg, "extended")

NextReclassify == ClassifyFirst \/ ClassifyRearranged \/ ClassifyExtended

SpecReclassify == InitReclassify /\ [][NextReclassify]_vars

-----------------------------------------------------------------------------
(* version (lockstep.ts:397-460)                                           *)

\* lines 418-432: the manifest of one package after the in-memory update
\* a variant of lines 430-433 that pins the new version, dropping the operator
UpdateRangePinned(dep, range, internalNames, next) ==
    IF dep \notin internalNames THEN range
    ELSE IF range.typ # "string" THEN range
    ELSE Str(next)

\* a variant of lines 428-432 without the test for workspace members
UpdateRangeOfAll(dep, range, internalNames, next) ==
    IF range.typ # "string" THEN range
    ELSE Str(preserveOperator(range.val, next))

UpdateRange(dep, range, internalNames, next) ==
    IF dep \notin internalNames THEN range
    ELSE IF range.typ # "string" THEN range
    ELSE Str(preserveOperator(range.val, next))

UpdatePackage(pkg, internalNames, next) ==
    [pkg EXCEPT !.version = next,
                !.deps = [f \in Fields |->
                    [d \in DOMAIN pkg.deps[f] |->
                        UpdateRange(d, pkg.deps[f][d], internalNames, next)]]]

\* a variant of line 452 that always appends the marker
CommitMessageAlwaysSkipCi(next, skipCi) == "chore(release): v" \o next \o " [skip ci]"

\* line 452
CommitMessage(next, skipCi) ==
    "chore(release): v" \o next \o (IF skipCi THEN " [skip ci]" ELSE "")

\* a variant of lines 440-442 without the test of rootPkg.version
RootExists(root) == root.exists

\* lines 440-442: exists(rootPkgPath) and rootPkg.version is truthy
RootHasVersion(root) == root.exists /\ root.version # ""

VersionOptions ==
    [cmd : {"version"}, type : {"patch", "minor", "major", "auto"},
     skipCi : BOOLEAN, noGitCommit : BOOLEAN]

Environments ==
    {NoEnv}
    \cup {[describe |-> "v1.0.0", logOk |-> FALSE, logOut |-> ""]}
    \cup {[describe |-> "v1.0.0", logOk |-> TRUE, logOut |-> out] :
            out \in {"", "feat: x\nfix: y", "fix: y\nchore: z", "feat!: x",
                     "update readme"}}

\* lines 398-414: the effective type, buildWorkspace, the version check and
\* the bump
VersionEntry(at, o, env) ==
    /\ pc = at
    /\ opts' = o
    /\ LET auto == determineVersionType(env)
           effective == IF o.type = "auto" THEN auto.type ELSE o.type
           calls == IF o.type = "auto" THEN auto.calls ELSE <<>>
           ws == buildWorkspace(manifests)
           current == ensureAllSameVersion(ws.packages)
           next == IF current.threw # "" THEN current
                   ELSE semverBump(current.value, effective)
       IN  /\ log' = log \o calls \o <<Event("read", "package.json", 0, TRUE)>>
           /\ actualType' = effective
           /\ repo' = env
           /\ packages' = ws.packages
           /\ IF next.threw # ""
              THEN Fail(next.threw) /\ UNCHANGED <<nextVer, idx>>
              ELSE /\ nextVer' = next.value
                   /\ idx' = 1
                   /\ pc' = "version_write"
                   /\ err' = err
    /\ UNCHANGED <<manifests, rootPkg, order, currentBranch, finalTag, running, sorted,
                   start, arg, result>>

\* version() called on a Lockstep object directly
VersionBegin(o, env) == VersionEntry("idle", o, env)

\* a variant of lines 417-436 that restores the manifests already written
\* when writeJSON throws
VersionWriteRollback(ok) ==
    /\ pc = "version_write"
    /\ idx <= Len(packages)
    /\ LET p == packages[idx]
           pkg == UpdatePackage(p.data, ByNameKeys(packages), nextVer)
       IN  /\ packages' = [packages EXCEPT ![idx].data = pkg]
           /\ log' = Append(log, Event("write", "package.json", p.dir, ok))
           /\ IF ok
              THEN /\ manifests' = [manifests EXCEPT ![p.dir] = pkg]
                   /\ idx' = idx + 1
                   /\ UNCHANGED <<pc, err>>
              ELSE /\ Fail(ErrWrite)
                   /\ manifests' = start.manifests
                   /\ UNCHANGED idx
    /\ UNCHANGED <<rootPkg, opts, order, currentBranch, finalTag, nextVer,
                   running, sorted,
                   actualType, start, repo, arg, result>>

\* lines 417-436: one iteration of the loop; writeJSON succeeds (ok) or throws
VersionWrite(ok) ==
    /\ pc = "version_write"
    /\ idx <= Len(packages)
    /\ LET p == packages[idx]
           pkg == UpdatePackage(p.data, ByNameKeys(packages), nextVer)
       IN  /\ packages' = [packages EXCEPT ![idx].data = pkg]
           /\ log' = Append(log, Event("write", "package.json", p.dir, ok))
           /\ IF ok
              THEN /\ manifests' = [manifests EXCEPT ![p.dir] = pkg]
                   /\ idx' = idx + 1
                   /\ UNCHANGED <<pc, err>>
              ELSE /\ Fail(ErrWrite)
                   /\ UNCHANGED <<manifests, idx>>
    /\ UNCHANGED <<rootPkg, opts, order, currentBranch, finalTag, nextVer,
                   running, sorted,
                   actualType, start, repo, arg, result>>

\* a variant of lines 449-453 that commits without staging
AfterManifestsSkipAdd(o) == IF o.noGitCommit THEN "done" ELSE "version_commit"

\* where version goes after the manifests: lines 449-459
AfterManifests(o) == IF o.noGitCommit THEN "done" ELSE "version_add"

\* lines 438-447: the root package.json, after the loop
VersionRoot(ok) ==
    /\ pc = "version_write"
    /\ idx > Len(packages)
    /\ IF RootHasVersion(rootPkg)
       THEN /\ log' = Append(log, Event("write", "root package.json", 0, ok))
            /\ IF ok
               THEN /\ rootPkg' = [rootPkg EXCEPT !.version = nextVer]
                    /\ pc' = AfterManifests(opts)
                    /\ err' = err
               ELSE /\ Fail(ErrWrite)
                    /\ UNCHANGED rootPkg
       ELSE /\ ok
            /\ pc' = AfterManifests(opts)
            /\ UNCHANGED <<log, rootPkg, err>>
    /\ UNCHANGED <<manifests, opts, packages, order, idx, currentBranch, finalTag,
                   nextVer, running, sorted,
                   actualType, start, repo, arg, result>>

\* a variant of lines 451-454 that goes on after a failed command
GitStepIgnoringFailure(at, command, then, ok) ==
    /\ pc = at
    /\ log' = Append(log, Event("git", command, 0, ok))
    /\ pc' = then /\ err' = err
    /\ UNCHANGED <<manifests, rootPkg, opts, packages, order, idx, currentBranch,
                   finalTag, nextVer, running, sorted,
                   actualType, start, repo, arg, result>>

\* one of the three execSync calls of lines 451-454
GitStep(at, command, then, ok) ==
    /\ pc = at
    /\ log' = Append(log, Event("git", command, 0, ok))
    /\ IF ok THEN pc' = then /\ err' = err ELSE Fail(ErrCommand)
    /\ UNCHANGED <<manifests, rootPkg, opts, packages, order, idx, currentBranch,
                   finalTag, nextVer, running, sorted,
                   actualType, start, repo, arg, result>>

VersionGitAdd(ok) == GitStep("version_add", GitAdd, "version_commit", ok)

VersionGitCommit(ok) ==
    GitStep("version_commit", GitCommit(CommitMessage(nextVer, opts.skipCi)),
            "version_tag", ok)

VersionGitTag(ok) == GitStep("version_tag", GitTag(nextVer), "done", ok)

NextVersion ==
    \/ \E o \in VersionOptions : o.type # "auto" /\ VersionBegin(o, NoEnv)
    \/ \E o \in VersionOptions, env \in Environments :
          o.type = "auto" /\ VersionBegin(o, env)
    \/ \E ok \in BOOLEAN : VersionWrite(ok)
    \/ \E ok \in BOOLEAN : VersionRoot(ok)
    \/ \E ok \in BOOLEAN : VersionGitAdd(ok)
    \/ \E ok \in BOOLEAN : VersionGitCommit(ok)
    \/ \E ok \in BOOLEAN : VersionGitTag(ok)

-----------------------------------------------------------------------------
(* The workspaces version is run on: the chain a -> b -> c of the          *)
(* documentation (a lists b, b lists c as "~1.0.0"), cut to its first n    *)
(* packages (a dependency on a package that is cut off is an external      *)
(* one); a and b also list the external package x.  Varied are: the field  *)
(* and the range of a's two entries; the version of every package; the     *)
(* names (two manifests may share one) and the root package.json.          *)

ChainNames == <<"a", "b", "c">>

Ranges ==
    {Str("^1.0.0"), Str("~1.0.0"), Str(">=1.0.0"), Str("=1.0.0"), Str("1.0.0"),
     Str("*"), Str(">1.0.0 <2.0.0"), NonStr("1")}

Versions == {"1.0.0", "1.2.3", "1.2.3-alpha.1", "0.9.99", "invalid", "1.0", "1.0.0-"}

\* version strings the pattern of semverBump does not match
Malformed ==
    {"", "invalid", "1.0", "1.0.0-", "1.0.0.0", "v1.0.0", "1.0.0+build", " 1.0.0",
     "1.0.0 ", "1..0", "1.0.0alpha", "-1.0.0", "1.0.x", "1,0,0", "1.0.0-a\nb",
     "1.0.0\n"}

Roots ==
    {NoRoot, [exists |-> TRUE, version |-> ""], [exists |-> TRUE, version |-> "1.0.0"],
     [exists |-> TRUE, version |-> "0.0.1"]}

ChainEntries(f, r) ==
    {Entry(1, f, "b", r), Entry(1, f, ExtName, r),
     Entry(2, "dependencies", "c", Str("~1.0.0")),
     Entry(2, "optionalDependencies", ExtName, Str(">=1.0.0"))}

ChainWorkspace(names, versions, f, r) ==
    [i \in 1..Len(names) |-> Manifest(i, names[i], versions[i], ChainEntries(f, r))]

InVersionWorkspaces(ms, root) ==
    \/ /\ root = NoRoot
       /\ \E f \in Fields, r \in Ranges, v \in {"1.0.0", "1.2.3-alpha.1"} :
             ms = ChainWorkspace(ChainNames, [i \in 1..Len(ChainNames) |-> v], f, r)
    \/ /\ root \in {NoRoot, [exists |-> TRUE, version |-> "1.0.0"]}
       /\ \E n \in 0..Len(ChainNames) : \E vs \in [1..n -> Versions] :
             ms = ChainWorkspace(SubSeq(ChainNames, 1, n), vs, "dependencies",
                                 Str("^1.0.0"))
    \/ /\ root \in Roots
       /\ \E n \in 0..Len(ChainNames) : \E names \in NameSeqs(n) :
             ms = ChainWorkspace(names, [i \in 1..n |-> "1.0.0"], "peerDependencies",
                                 Str("^1.0.0"))
    \/ /\ root \in {NoRoot, [exists |-> TRUE, version |-> "1.0.0"]}
       /\ \E n \in 1..2 : \E v \in Malformed :
             ms = ChainWorkspace(SubSeq(ChainNames, 1, n), [i \in 1..n |-> v],
                                 "dependencies", Str("^1.0.0"))

InitVersion ==
    /\ InVersionWorkspaces(manifests, rootPkg)
    /\ IdleLocals
    /\ NoCall

SpecVersion == InitVersion /\ [][NextVersion]_vars

-----------------------------------------------------------------------------
(* SpecOps: one run of publish or of version on the documented chain, cut  *)
(* to its first n packages, all at 1.0.0                                   *)

InitOps ==
    /\ rootPkg \in {NoRoot, [exists |-> TRUE, version |-> "1.0.0"]}
    /\ \E n \in 0..Len(ChainNames) :
          manifests = ChainWorkspace(SubSeq(ChainNames, 1, n), [i \in 1..n |-> "1.0.0"],
                                     "dependencies", Str("^1.0.0"))
    /\ IdleLocals
    /\ NoCall

NextOps == NextPublish \/ NextVersion

SpecOps == InitOps /\ [][NextOps]_vars

-----------------------------------------------------------------------------
(* SpecReleases: up to MaxOps version operations one after the other on    *)
(* the documented chain.  Every operation is a process of its own: only    *)
(* the manifests are carried over.  `result` lists the versions of the     *)
(* operations completed before.                                            *)

ReleaseVersions ==
    {"1.0.0", "0.9.99", "1.2.3-alpha.1", "9007199254740991.0.9007199254740991"}

InitReleases ==
    /\ rootPkg \in {NoRoot, [exists |-> TRUE, version |-> "1.0.0"]}
    /\ \E n \in 0..Len(ChainNames), v \in ReleaseVersions :
          manifests = ChainWorkspace(SubSeq(ChainNames, 1, n), [i \in 1..n |-> v],
                                     "dependencies", Str("^1.0.0"))
    /\ IdleLocals
    /\ NoCall

\* the process of a completed version operation is over and a new Lockstep
\* object is constructed on the manifests it left
Rerun ==
    /\ pc = "done"
    /\ opts.cmd = "version"
    /\ Len(result) + 1 < MaxOps
    /\ result' = Append(result, nextVer)
    /\ pc' = "idle"
    /\ opts' = NoOpts
    /\ err' = ""
    /\ packages' = <<>>
    /\ order' = <<>>
    /\ idx' = 0
    /\ currentBranch' = ""
    /\ finalTag' = ""
    /\ nextVer' = ""
    /\ running' = {}
    /\ log' = <<>>
    /\ sorted' = Return(<<>>)
    /\ actualType' = ""
    /\ start' = [manifests |-> manifests, rootPkg |-> rootPkg]
    /\ repo' = NoEnv
    /\ UNCHANGED <<manifests, rootPkg, arg>>

NextReleases == NextVersion \/ Rerun

SpecReleases == InitReleases /\ [][NextReleases]_vars

-----------------------------------------------------------------------------
(* SpecCli: the command line "lockstep version [--type t] [--ci]           *)
(* [--no-git-commit]" of cli.ts, run on the documented chain.  The         *)
(* repository answers git describe with its last tag ("" when there is     *)
(* none) and git diff --name-only <tag>..HEAD with diffOut, or fails it.   *)

ErrType == "--type must be patch|minor|major|auto"

GitDiff(tag) == "git diff --name-only " \o tag \o "..HEAD"

\* diff.split('\n').some(Boolean): some line is a non-empty string
SomeLine(out) ==
    LET ls == SplitLines(out, 1, "") IN \E k \in 1..Len(ls) : ls[k] # ""

\* the variant that reports a change whenever git diff succeeds
changedAlways(env) ==
    IF env.describe = ""
    THEN [threw |-> "", value |-> TRUE,
          calls |-> <<Event("git", GitDescribe, 0, FALSE)>>]
    ELSE [threw |-> IF env.diffOk THEN "" ELSE ErrCommand, value |-> TRUE,
          calls |-> <<Event("git", GitDescribe, 0, TRUE),
                      Event("git", GitDiff(env.describe), 0, env.diffOk)>>]

\* lockstep.ts lines 296-307: no tag counts as changed; a failing git diff
\* is not caught
changedSinceLastTag(env) ==
    IF env.describe = ""
    THEN [threw |-> "", value |-> TRUE,
          calls |-> <<Event("git", GitDescribe, 0, FALSE)>>]
    ELSE LET calls == <<Event("git", GitDescribe, 0, TRUE),
                        Event("git", GitDiff(env.describe), 0, env.diffOk)>>
         IN  IF ~ env.diffOk
             THEN [threw |-> ErrCommand, value |-> FALSE, calls |-> calls]
             ELSE [threw |-> "", value |-> SomeLine(env.diffOut), calls |-> calls]

\* cli.ts line 131: String(opts.type || 'patch'); the option is absent, given
\* without a value (true) or given with a (non-empty) value
CliType(t) ==
    IF t.given = "absent" THEN "patch"
    ELSE IF t.given = "flag" THEN "true"
    ELSE t.value

CliTypeArgs ==
    {[given |-> "absent", value |-> ""], [given |-> "flag", value |-> ""]}
    \cup {[given |-> "value", value |-> v] :
             v \in {"patch", "minor", "major", "auto", "Patch", "prerelease"}}

CliArgs == [type : CliTypeArgs, ci : BOOLEAN, noGitCommit : BOOLEAN]

CliEnvironments ==
    {[describe |-> "", diffOk |-> FALSE, diffOut |-> "", logOk |-> FALSE, logOut |-> ""]}
    \cup {[describe |-> "v1.0.0", diffOk |-> FALSE, diffOut |-> "", logOk |-> FALSE,
            logOut |-> ""]}
    \cup {[describe |-> "v1.0.0", diffOk |-> TRUE, diffOut |-> d, logOk |-> TRUE,
            logOut |-> l] :
             d \in {"", "\n", "README.md\n", "packages/a/package.json\nREADME.md\n"},
             l \in {"", "feat: x"}}

\* cli.ts lines 129-143: the type check, the change check and the options
CliMain(argv, env) ==
    /\ pc = "idle"
    /\ arg' = argv
    /\ repo' = env
    /\ LET type == CliType(argv.type)
           changed == changedSinceLastTag(env)
       IN  IF type \notin {"patch", "minor", "major", "auto"}
           THEN Fail(ErrType) /\ UNCHANGED <<log, opts>>
           ELSE /\ log' = log \o changed.calls
                /\ IF changed.threw # ""
                   THEN Fail(changed.threw) /\ UNCHANGED opts
                   ELSE IF ~ changed.value
                   THEN pc' = "skipped" /\ UNCHANGED <<err, opts>>
                   ELSE /\ pc' = "cli_version"
                        /\ opts' = [cmd |-> "version", type |-> type,
                                    skipCi |-> argv.ci, noGitCommit |-> argv.noGitCommit]
                        /\ err' = err
    /\ UNCHANGED <<manifests, rootPkg, packages, order, idx, currentBranch, finalTag,
                   nextVer, running, sorted, actualType, start, result>>

\* cli.ts line 145: await lockstep.version({ type, skipCi, noGitCommit })
CliVersion == VersionEntry("cli_version", opts, repo)

NextCli ==
    \/ \E argv \in CliArgs, env \in CliEnvironments : CliMain(argv, env)
    \/ CliVersion
    \/ \E ok \in BOOLEAN : VersionWrite(ok)
    \/ \E ok \in BOOLEAN : VersionRoot(ok)
    \/ \E ok \in BOOLEAN : VersionGitAdd(ok)
    \/ \E ok \in BOOLEAN : VersionGitCommit(ok)
    \/ \E ok \in BOOLEAN : VersionGitTag(ok)

SpecCli == InitOps /\ [][NextCli]_vars

-----------------------------------------------------------------------------
(* Notions the properties are stated with, read off the manifests          *)

\* package (directory) i lists the name d in one of its four dependency fields
Lists(ms, i, d) == \E f \in Fields : d \in DOMAIN ms[i].deps[f]

Dirs(ms) == 1..Len(ms)
NamesIn(ms) == {ms[i].name : i \in Dirs(ms)}
DistinctNames(ms) == \A i, j \in Dirs(ms) : ms[i].name = ms[j].name => i = j

\* the internal dependency relation on names: dep -> dependent
DepEdge(ms, dep, dependent) ==
    \E i \in Dirs(ms) : ms[i].name = dependent /\ Lists(ms, i, dep) /\ dep \in NamesIn(ms)

\* the names reachable from the set S in one or more steps
RECURSIVE ReachFrom(_, _, _)
ReachFrom(ms, S, seen) ==
    LET nxt == {b \in NamesIn(ms) : \E a \in S : DepEdge(ms, a, b)} \ seen
    IN  IF nxt = {} THEN seen ELSE ReachFrom(ms, nxt, seen \cup nxt)

HasCycle(ms) == \E a \in NamesIn(ms) : a \in ReachFrom(ms, {a}, {})

\* position of the first occurrence of name n in the sequence s (0 if none)
IndexOf(s, n) ==
    IF \E k \in 1..Len(s) : s[k] = n
    THEN CHOOSE k \in 1..Len(s) : s[k] = n /\ \A j \in 1..(k - 1) : s[j] # n
    ELSE 0

IsPermutationOfNames(s, ms) ==
    /\ Len(s) = Len(ms)
    /\ \A i \in Dirs(ms) : Cardinality({k \in 1..Len(s) : s[k] = ms[i].name}) = 1

PublishEvents == {k \in 1..Len(log) : log[k].kind = "publish"}
PublishedOk(dir, before) ==
    \E k \in PublishEvents : k < before /\ log[k].dir = dir /\ log[k].ok

-----------------------------------------------------------------------------
(* Properties                                                              *)

\* C1: in every publish, when the publish command of package A is started,
\* the command of every workspace member B that A lists in a dependency
\* field has completed successfully before; at most one command runs at a time.
C1_DependenciesPublishedFirst ==
    /\ Cardinality(running) <= 1
    /\ \A a \in running : \A b \in Dirs(manifests) :
          Lists(manifests, a, manifests[b].name) => PublishedOk(b, Len(log) + 1)
    /\ \A k \in PublishEvents : \A b \in Dirs(manifests) :
          Lists(manifests, log[k].dir, manifests[b].name) => PublishedOk(b, k)

\* C2: on a workspace with pairwise distinct names and an acyclic internal
\* dependency graph topoSort returns (does not throw) a permutation of the
\* package names in which every graph edge dependency -> dependent points forward.
C2_TopoSortOrdersAcyclic ==
    (pc = "sorted" /\ DistinctNames(manifests) /\ ~ HasCycle(manifests)) =>
        /\ sorted.threw = ""
        /\ IsPermutationOfNames(sorted.value, manifests)
        /\ LET g == buildWorkspace(manifests).graph
           IN  \A d \in DOMAIN g.adj : \A k \in 1..Len(g.adj[d]) :
                  IndexOf(sorted.value, d) < IndexOf(sorted.value, g.adj[d][k])

\* C2 witness: a sorted acyclic workspace of three packages with two edges
C2_Witness ==
    /\ pc = "sorted" /\ DistinctNames(manifests) /\ ~ HasCycle(manifests)
    /\ Len(manifests) = 3
    /\ \E x, y, z \in NamesIn(manifests) :
          /\ x # y /\ y # z
          /\ DepEdge(manifests, x, y) /\ DepEdge(manifests, y, z)
          /\ sorted.value # <<manifests[1].name, manifests[2].name, manifests[3].name>>

\* C3: topoSort throws the cycle error exactly when the internal dependency
\* graph has a directed cycle, and then returns no order.
C3_ThrowsIffCycle ==
    pc = "sorted" =>
        /\ (sorted.threw = ErrCycle) <=> HasCycle(manifests)
        /\ sorted.threw # "" => sorted.value = <<>>

\* the publish events of the log, in order
RECURSIVE PublishLog(_)
PublishLog(l) ==
    IF Len(l) = 0 THEN <<>>
    ELSE (IF Head(l).kind = "publish" THEN <<Head(l)>> ELSE <<>>) \o PublishLog(Tail(l))

Pushed == \E k \in 1..Len(log) : log[k].kind = "git" /\ log[k].what = GitPush
BranchQueries == {k \in 1..Len(log) : log[k].kind = "git" /\ log[k].what = GitRevParse}
PublishOver == opts.cmd = "publish" /\ pc \in {"done", "failed"}

\* C6: when the publish command of the k-th package of the order fails,
\* publish ends with that error and the failed command is the last thing it
\* did: no later publish command, no push, no second attempt; the k-1
\* commands before it are the successful ones of the packages before it.
C6_FailedPublishStops ==
    \A k \in PublishEvents : ~ log[k].ok =>
        /\ k = Len(log)
        /\ pc = "failed" /\ err = ErrCommand /\ running = {}
        /\ LET pl == PublishLog(log)
           IN  /\ Len(pl) = idx
               /\ \A j \in 1..Len(pl) :
                     /\ pl[j].dir = packages[FindPackage(packages, order[j])].dir
                     /\ pl[j].ok <=> j < idx

\* C6 witness: the second package's command failed after the first succeeded
C6_Witness ==
    /\ pc = "failed" /\ Len(order) >= 3 /\ ShouldPush(opts)
    /\ LET pl == PublishLog(log)
       IN  Len(pl) = 2 /\ pl[1].ok /\ ~ pl[2].ok

C8_MainBranchKeepsTag ==
    \A k \in PublishEvents :
        currentBranch \in {"main", "master"}
            => includes(log[k].what, " --tag " \o opts.tag \o " ")

\* topoSort returned an order
OrderComputed == opts.cmd = "publish" /\ err # ErrMissingTag /\ err # ErrCycle
\* the publish command of every package of the order has succeeded
AllPublished ==
    /\ OrderComputed
    /\ Len(PublishLog(log)) = Len(order)
    /\ \A k \in PublishEvents : log[k].ok
PushIsLast == \A k \in 1..Len(log) : log[k].what = GitPush => k = Len(log)

\* C9 as stated: publish pushes exactly when gitPush is set, dry is not and
\* the publish command of every package of the order has succeeded; the push
\* comes after the last publish command.
C9_PushExactlyWhen ==
    /\ PushIsLast
    /\ PublishOver => (Pushed <=> (opts.gitPush /\ ~ opts.dry /\ AllPublished))

\* C9 amended: ... exactly when gitPush is set, dry is not, the branch query
\* has succeeded and the publish command of every package has succeeded.
C9_PushExactlyWhenResolved ==
    /\ PushIsLast
    /\ PublishOver =>
          (Pushed <=> (/\ opts.gitPush /\ ~ opts.dry
                       /\ \E k \in BranchQueries : log[k].ok
                       /\ AllPublished))

\* C9 witness: a push after the commands of two packages
C9_Witness ==
    /\ PublishOver /\ Pushed /\ Len(order) >= 2
    /\ log[Len(log)].what = GitPush
    /\ log[Len(log) - 1].kind = "publish"

\* C10: publish with an empty tag fails with the missing-tag error before
\* anything else happens: no workspace read, no branch query, no publish
\* command, no push.
C10_MissingTagNoEffects ==
    (opts.cmd = "publish" /\ opts.tag = "") =>
        /\ pc = "failed" /\ err = ErrMissingTag
        /\ log = <<>> /\ packages = <<>> /\ order = <<>>
        /\ currentBranch = "" /\ running = {}

\* C10 witness: publish without a tag on a workspace of two packages
C10_Witness ==
    /\ opts.cmd = "publish" /\ opts.tag = "" /\ opts.gitPush /\ ~ opts.dry
    /\ pc = "failed" /\ Len(manifests) >= 2

\* the version operation has completed all its steps
VersionDone == opts.cmd = "version" /\ pc = "done"

\* the versions the packages carried when the process started
StartVersions == {start.manifests[i].version : i \in Dirs(start.manifests)}

\* the workspace of the documentation: a -> b "^1.0.0", b -> c "~1.0.0",
\* all at 1.0.0
DocumentedChain ==
    ChainWorkspace(ChainNames, [i \in 1..Len(ChainNames) |-> "1.0.0"], "dependencies", Str("^1.0.0"))

WriteEvents == {k \in 1..Len(log) : log[k].kind = "write"}
GitWrites ==
    {k \in 1..Len(log) : log[k].kind = "git" /\ (\/ log[k].what = GitAdd
                                                \/ startsWith(log[k].what, "git commit")
                                                \/ startsWith(log[k].what, "git tag"))}

\* C4: after a successful version(kind) on packages that all carry the
\* version current, every manifest has version semverBump(current, kind) and
\* every string range of a workspace member, in each of the four fields,
\* is preserveOperator(old range, next); the documented chain at 1.0.0
\* bumped by minor ends at 1.1.0 with "^1.1.0" and "~1.1.0".
C4_VersionRewritesManifests ==
    VersionDone =>
        LET old == start.manifests
            current == CHOOSE v \in StartVersions : TRUE
            next == semverBump(current, actualType).value
        IN  /\ StartVersions = {current}
            /\ opts.type # "auto" => actualType = opts.type
            /\ Len(manifests) = Len(old)
            /\ \A i \in Dirs(old) :
                  /\ manifests[i].version = next
                  /\ \A f \in Fields :
                        /\ DOMAIN manifests[i].deps[f] = DOMAIN old[i].deps[f]
                        /\ \A d \in DOMAIN old[i].deps[f] :
                              (d \in NamesIn(old) /\ old[i].deps[f][d].typ = "string")
                              => manifests[i].deps[f][d]
                                   = Str(preserveOperator(old[i].deps[f][d].val, next))
            /\ (old = DocumentedChain /\ actualType = "minor") =>
                  /\ \A i \in 1..3 : manifests[i].version = "1.1.0"
                  /\ manifests[1].deps["dependencies"]["b"] = Str("^1.1.0")
                  /\ manifests[2].deps["dependencies"]["c"] = Str("~1.1.0")

C4_Witness ==
    /\ VersionDone
    /\ start.manifests = DocumentedChain
    /\ opts.type = "minor"
    /\ manifests[1].deps["dependencies"]["b"] = Str("^1.1.0")
    /\ manifests[2].deps["dependencies"]["c"] = Str("~1.1.0")
    /\ manifests[3].version = "1.1.0"

\* C5: when the packages do not all carry the same version, version fails
\* with the inconsistent-versions error, which lists the distinct versions,
\* before any manifest is written and before git add, commit or tag; every
\* manifest is as it was.
C5_InconsistentVersionsFailFirst ==
    (opts.cmd = "version" /\ Cardinality(StartVersions) > 1) =>
        /\ pc = "failed"
        /\ startsWith(err, ErrVersions)
        /\ \A v \in StartVersions : includes(err, v)
        /\ WriteEvents = {}
        /\ GitWrites = {}
        /\ manifests = start.manifests
        /\ rootPkg = start.rootPkg

C5_Witness ==
    /\ opts.cmd = "version"
    /\ pc = "failed"
    /\ Len(manifests) = 3
    /\ StartVersions = {"1.0.0", "1.2.3"}
    /\ RootHasVersion(rootPkg)
    /\ err = ErrVersions \o "1.0.0, 1.2.3"


\* the subject carries a breaking-change marker
IsBreaking(subject) == includes(subject, "BREAKING CHANGE") \/ includes(subject, "!:")

\* the subject starts with "feat:" or with "feat(<scope>):", scope not empty
IsFeature(subject) ==
    \/ SubSeq(subject \o "     ", 1, 5) = "feat:"
    \/ /\ SubSeq(subject \o "     ", 1, 5) = "feat("
       /\ \E j \in 7..(Len(subject) - 1) : SubSeq(subject, j, j + 1) = "):"

\* C11: for a non-empty sequence of commit subjects the automatic type is
\* major when a subject contains "BREAKING CHANGE" or "!:", otherwise minor
\* when a subject starts with "feat:" or "feat(<scope>):", otherwise patch;
\* [feat: x, fix: y] is minor, [fix: y, chore: z] patch, [feat!: x] major.
C11_Classification ==
    pc = "classified" =>
        /\ result = IF \E k \in 1..Len(arg) : IsBreaking(arg[k]) THEN "major"
                    ELSE IF \E k \in 1..Len(arg) : IsFeature(arg[k]) THEN "minor"
                    ELSE "patch"
        /\ arg = <<"feat: x", "fix: y">> => result = "minor"
        /\ arg = <<"fix: y", "chore: z">> => result = "patch"
        /\ arg = <<"feat!: x">> => result = "major"

\* C11 witness: a fix followed by a scoped feature is classified minor
C11_Witness ==
    pc = "classified" /\ arg = <<"fix: y", "feat(api): x">> /\ result = "minor"

\* version runs with type auto in a repository without a tag, or without a
\* commit since the last tag
NoHistory ==
    /\ opts.cmd = "version" /\ opts.type = "auto"
    /\ \/ repo.describe = ""
       \/ repo.logOk /\ repo.logOut = ""

\* C12: with type auto, when there is no previous tag or no commit since the
\* last tag, the effective type is patch and version goes on with the patch
\* bump (1.0.0 becomes 1.0.1, 1.2.3-alpha.1 becomes 1.2.4).
C12_AutoDefaultsToPatch ==
    NoHistory =>
        /\ actualType = "patch"
        /\ err # ErrCommand \/ Len(log) > 2
        /\ StartVersions = {"1.0.0"} =>
              /\ nextVer = "1.0.1"
              /\ pc = "done" => \A i \in Dirs(manifests) : manifests[i].version = "1.0.1"
        /\ StartVersions = {"1.2.3-alpha.1"} => nextVer = "1.2.4"
        /\ StartVersions = {"0.9.99"} => nextVer = "0.9.100"

\* C12 witness: no tag, three packages bumped from 1.0.0 to 1.0.1 and tagged
C12_Witness ==
    /\ NoHistory /\ repo.describe = "" /\ pc = "done" /\ ~ opts.noGitCommit
    /\ Len(manifests) = 3
    /\ \A i \in Dirs(manifests) : manifests[i].version = "1.0.1"

\* the decimal numeral of the integer a string of digits denotes, and of
\* that integer plus one
Numeral(digits) == ToString_(Canon(DigitSeq(digits)))
Successor(digits) == ToString_(Inc(Canon(DigitSeq(digits))))

\* C13: on a version string matching the pattern semverBump returns
\* (major+1).0.0 for major, major.(minor+1).0 for minor and
\* major.minor.(patch+1) for patch, without the suffix; 1.2.3-alpha.1 bumped
\* by patch is 1.2.4.
C13_BumpArithmetic ==
    pc = "bumped" =>
        /\ result =
              Return(CASE arg.type = "major" -> Successor(arg.major) \o ".0.0"
                       [] arg.type = "minor" ->
                            Numeral(arg.major) \o "." \o Successor(arg.minor) \o ".0"
                       [] arg.type = "patch" ->
                            Numeral(arg.major) \o "." \o Numeral(arg.minor) \o "."
                            \o Successor(arg.patch))
        /\ (VersionString(arg) = "1.2.3-alpha.1" /\ arg.type = "patch")
              => result = Return("1.2.4")

\* the characters s[from..to] are digits, at least one
AllDigits(s, from, to) ==
    from <= to /\ \A k \in from..to : CharAt(s, k) \in Digits

\* v is digits.digits.digits, optionally followed by "-" and at least one
\* more character of the same line
IsStrictSemver(v) ==
    \E p \in 1..Len(v), q \in 1..Len(v), e \in 1..Len(v) :
        /\ p < q /\ q < e
        /\ CharAt(v, p) = "." /\ CharAt(v, q) = "."
        /\ AllDigits(v, 1, p - 1) /\ AllDigits(v, p + 1, q - 1) /\ AllDigits(v, q + 1, e)
        /\ \/ e = Len(v)
           \/ /\ CharAt(v, e + 1) = "-"
              /\ e + 2 <= Len(v)
              /\ \A k \in (e + 2)..Len(v) : CharAt(v, k) \notin {"\n", "\r"}

\* C14: on a version string that is not digits.digits.digits with an
\* optional "-" suffix semverBump throws the error naming the string and
\* derives no version from it; version then writes no manifest and makes no
\* git add, commit or tag.
C14_InvalidSemverFails ==
    (opts.cmd = "version" /\ Cardinality(StartVersions) = 1) =>
        LET v == CHOOSE x \in StartVersions : TRUE
        IN  ~ IsStrictSemver(v) =>
                /\ pc = "failed"
                /\ startsWith(err, ErrSemver) /\ includes(err, v)
                /\ err = "Not a semver version: " \o v
                /\ nextVer = ""
                /\ WriteEvents = {} /\ GitWrites = {}
                /\ manifests = start.manifests /\ rootPkg = start.rootPkg

\* C14 witness: version on two packages at 1.0.0+build, with a root manifest
C14_Witness ==
    /\ opts.cmd = "version" /\ ~ opts.noGitCommit
    /\ Len(manifests) = 2 /\ StartVersions = {"1.0.0+build"}
    /\ RootHasVersion(rootPkg)
    /\ pc = "failed" /\ err = ErrSemver \o "1.0.0+build"

\* the operators preserveOperator keeps
Operators == {"^", "~", ">=", "="}

\* the range begins with the operator
BeginsWith(range, op) == Len(range) >= Len(op) /\ SubSeq(range, 1, Len(op)) = op

\* C15: preserveOperator returns the new version behind the operator
\* "^", "~", ">=" or "=" the old range begins with, and the bare new version
\* for every other old range; applied to its own result it returns the same.
C15_PreserveOperator ==
    pc = "preserved" =>
        /\ \A op \in Operators :
              BeginsWith(arg.oldRange, op) => result.once = op \o arg.newVersion
        /\ (\A op \in Operators : ~ BeginsWith(arg.oldRange, op))
              => result.once = arg.newVersion
        /\ result.twice = result.once
        /\ arg.oldRange \in {"1.0.0", "*", ">1.0.0", "<1.0.0", "1.2.3 <2.0.0"}
              => result.once = arg.newVersion

\* C15 witness: ">=1.2.3 <2.0.0" becomes ">=2.0.0", and stays so
C15_Witness ==
    /\ pc = "preserved" /\ arg.oldRange = ">=1.2.3 <2.0.0" /\ arg.newVersion = "2.0.0"
    /\ result = [once |-> ">=2.0.0", twice |-> ">=2.0.0"]

\* C16: version changes nothing in a manifest but its version and the
\* string ranges of workspace members: the range of every external
\* dependency, every range that is no string and every other field are
\* written back as they were.
C16_VersionFrame ==
    opts.cmd = "version" =>
        /\ Len(manifests) = Len(start.manifests)
        /\ \A i \in Dirs(manifests) :
              LET old == start.manifests[i]
                  new == manifests[i]
              IN  /\ DOMAIN new = DOMAIN old
                  /\ \A k \in DOMAIN old \ {"version", "deps"} : new[k] = old[k]
                  /\ \A f \in Fields :
                        /\ DOMAIN new.deps[f] = DOMAIN old.deps[f]
                        /\ \A d \in DOMAIN old.deps[f] :
                              (d \notin NamesIn(start.manifests)
                               \/ old.deps[f][d].typ # "string")
                              => new.deps[f][d] = old.deps[f][d]

\* C16 witness: a bumped manifest that lists a workspace member with a range
\* that is no string, and the external package with a caret range
C16_Witness ==
    /\ VersionDone /\ Len(manifests) = 3
    /\ manifests[1].version # start.manifests[1].version
    /\ \E f \in Fields :
          /\ "b" \in DOMAIN manifests[1].deps[f]
          /\ manifests[1].deps[f]["b"] = NonStr("1")
    /\ manifests[2].deps["dependencies"]["c"] = Str("~1.0.1")
    /\ manifests[2].deps["optionalDependencies"][ExtName] = Str(">=1.0.0")

\* package i lists its own name
ListsItself(ms, i) == Lists(ms, i, ms[i].name)

\* the names reachable from S over edges between two different names
RECURSIVE ProperReach(_, _, _)
ProperReach(ms, S, seen) ==
    LET nxt == {b \in NamesIn(ms) : \E a \in S : a # b /\ DepEdge(ms, a, b)} \ seen
    IN  IF nxt = {} THEN seen ELSE ProperReach(ms, nxt, seen \cup nxt)

\* C17: a package that lists its own name gets no graph edge for that
\* entry, and topoSort on such a workspace, acyclic otherwise, returns an
\* order.
C17_SelfDependencyIgnored ==
    LET ms == manifests
    IN  (/\ pc = "sorted" /\ DistinctNames(ms)
         /\ \E i \in Dirs(ms) : ListsItself(ms, i)
         /\ \A a \in NamesIn(ms) : a \notin ProperReach(ms, {a}, {}))
        => /\ LET g == buildWorkspace(ms).graph
              IN  \A n \in DOMAIN g.adj : \A k \in 1..Len(g.adj[n]) : g.adj[n][k] # n
           /\ sorted.threw = ""
           /\ IsPermutationOfNames(sorted.value, ms)

\* the failed git and registry commands of the log
FailedCommands == {k \in 1..Len(log) : log[k].kind \in {"git", "publish"} /\ ~ log[k].ok}

\* the two queries determineVersionType makes for type auto
AutoQuery(what) == what = GitDescribe \/ startsWith(what, "git log ")

\* the operation ended with the error of its last command
EndedBy(k) == k = Len(log) /\ pc = "failed" /\ err = ErrCommand

\* C18 as stated: every failed git or registry command of version and
\* publish, the queries of type auto included, ends the operation with its
\* error; none is caught and replaced by a default.
C18_FailuresPropagate == \A k \in FailedCommands : EndedBy(k)

\* C18 amended: ... except the two queries of type auto (git describe, git
\* log): a failure of one of them is caught, the type is patch and version
\* goes on.
C18_FailuresPropagateButAutoQueries ==
    \A k \in FailedCommands :
        IF AutoQuery(log[k].what)
        THEN /\ opts.cmd = "version" /\ opts.type = "auto"
             /\ actualType = "patch"
             /\ Len(log) > k /\ log[k + 1].kind = "read"
        ELSE EndedBy(k)

\* C18 witness: git log fails, version goes on, and the git commit that
\* fails later ends it
C18_Witness ==
    /\ opts.cmd = "version" /\ Len(manifests) = 3 /\ Len(log) >= 4
    /\ startsWith(log[2].what, "git log ") /\ ~ log[2].ok
    /\ startsWith(log[Len(log)].what, "git commit") /\ ~ log[Len(log)].ok
    /\ pc = "failed"

\* the git add, commit and tag commands of the log, in order
RECURSIVE GitWriteLog(_)
GitWriteLog(l) ==
    IF Len(l) = 0 THEN <<>>
    ELSE (IF Head(l).kind = "git" /\ ~ AutoQuery(Head(l).what) THEN <<Head(l)>> ELSE <<>>)
         \o GitWriteLog(Tail(l))

\* every manifest, and the root manifest if it has a version, has been
\* written with the new version
AllWritten ==
    /\ \A i \in Dirs(manifests) : manifests[i].version = nextVer
    /\ RootHasVersion(start.rootPkg) => rootPkg.version = nextVer
    /\ Cardinality({k \in WriteEvents : log[k].ok})
          = Len(manifests) + (IF RootHasVersion(start.rootPkg) THEN 1 ELSE 0)

\* C19: without noGitCommit version runs git add, then git commit, then git
\* tag, each once and only after every manifest and the root manifest are
\* written; when one fails the later ones are not run, the error ends the
\* operation and the written manifests keep the new version.
C19_GitStepsInOrder ==
    opts.cmd = "version" =>
        LET g == GitWriteLog(log)
        IN  /\ Len(g) <= 3
            /\ Len(g) >= 1 => g[1].what = GitAdd
            /\ Len(g) >= 2 => startsWith(g[2].what, "git commit -m ")
            /\ Len(g) >= 3 => g[3].what = "git tag v" \o nextVer
            /\ \A j \in 1..Len(g) :
                  /\ j < Len(g) => g[j].ok
                  /\ ~ g[j].ok => /\ log[Len(log)] = g[j]
                                  /\ pc = "failed" /\ err = ErrCommand
            /\ Len(g) >= 1 =>
                  /\ ~ opts.noGitCommit
                  /\ AllWritten
                  /\ \A k \in WriteEvents : \A m \in GitWrites : k < m
            /\ (pc = "done" /\ ~ opts.noGitCommit) =>
                  Len(g) = 3 /\ g[3].ok /\ AllWritten

\* C19 witness: git commit fails after three manifests and the root were
\* written and staged
C19_Witness ==
    /\ opts.cmd = "version" /\ pc = "failed"
    /\ Len(manifests) = 3 /\ RootHasVersion(start.rootPkg)
    /\ LET g == GitWriteLog(log)
       IN  Len(g) = 2 /\ g[1].ok /\ ~ g[2].ok
    /\ \A i \in Dirs(manifests) : manifests[i].version = "1.0.1"
    /\ rootPkg.version = "1.0.1"

\* C20: with noGitCommit a successful version writes the new version to
\* every manifest and runs no git add, commit or tag; without it the commit
\* message is "chore(release): v{next}", followed by " [skip ci]" exactly
\* when skipCi is set.
C20_NoGitCommitAndMessage ==
    opts.cmd = "version" =>
        /\ opts.noGitCommit => GitWrites = {}
        /\ (pc = "done" /\ opts.noGitCommit) => AllWritten
        /\ \A k \in 1..Len(log) : startsWith(log[k].what, "git commit") =>
              /\ log[k].what = "git commit -m \"chore(release): v" \o nextVer
                                \o (IF opts.skipCi THEN " [skip ci]\"" ELSE "\"")
              /\ (nextVer = "1.1.0" /\ opts.skipCi)
                    => log[k].what = "git commit -m \"chore(release): v1.1.0 [skip ci]\""
              /\ (nextVer = "1.1.0" /\ ~ opts.skipCi)
                    => log[k].what = "git commit -m \"chore(release): v1.1.0\""

\* C20 witness: version with noGitCommit has bumped three packages and the
\* root manifest to 2.0.0 and is done
C20_Witness ==
    /\ VersionDone /\ opts.noGitCommit /\ opts.skipCi
    /\ Len(manifests) = 3 /\ RootHasVersion(start.rootPkg)
    /\ \A i \in Dirs(manifests) : manifests[i].version = "2.0.0"
    /\ rootPkg.version = "2.0.0"
    /\ Len(log) = 5

-----------------------------------------------------------------------------
(* Properties of the command line                                          *)

\* the command line has been read
CliStarted == pc # "idle"
ValidType == CliType(arg.type) \in {"patch", "minor", "major", "auto"}

\* git diff --name-only printed no file name
NoFileDiffers ==
    repo.diffOk /\ \A k \in 1..Len(repo.diffOut) : CharAt(repo.diffOut, k) = "\n"

\* version has been entered: it has read the manifests
VersionEntered == \E k \in 1..Len(log) : log[k].kind = "read"

Untouched ==
    /\ manifests = start.manifests
    /\ rootPkg = start.rootPkg
    /\ WriteEvents = {}
    /\ GitWrites = {}

\* C21: the version command with a valid type, a last tag and no file that
\* differs between the tag and HEAD ends with exit code 0, writes no manifest
\* and runs no git add, commit or tag; with no tag it goes on to the bump;
\* an invalid --type ends with the type error before any command is run and
\* before anything is written.
C21_SkipsWhenUnchanged ==
    CliStarted =>
        /\ (ValidType /\ repo.describe # "" /\ NoFileDiffers)
              => (pc = "skipped" /\ err = "" /\ Untouched /\ ~ VersionEntered)
        /\ (ValidType /\ repo.describe = "")
              => (pc = "cli_version" \/ VersionEntered)
        /\ ~ ValidType
              => (pc = "failed" /\ err = ErrType /\ log = <<>> /\ Untouched)

C21_Witness ==
    /\ pc = "skipped"
    /\ arg.type.given = "value"
    /\ repo.describe = "v1.0.0"
    /\ repo.diffOut = "\n"
    /\ Len(manifests) = 3

C23_CyclicNeverPublished ==
    (opts.cmd = "publish" /\ ~ TagMissing(opts) /\ HasCycle(manifests)) =>
        /\ pc = "failed"
        /\ err = ErrCycle
        /\ PublishEvents = {}
        /\ running = {}
        /\ ~ Pushed

\* the successful git tag commands of the log and the version they name
TagsCreated ==
    {k \in 1..Len(log) : log[k].kind = "git" /\ log[k].ok /\ startsWith(log[k].what, "git tag v")}
TaggedVersion(k) == SubSeq(log[k].what, Len("git tag v") + 1, Len(log[k].what))

\* C24: whenever version has created the tag vX, every package manifest
\* holds version X, all manifest writes came before the tag, and a commit
\* with the message "chore(release): vX" (with or without the skip-ci
\* marker) succeeded earlier in the same operation.
C24_TagMatchesManifestsAndCommit ==
    \A k \in TagsCreated :
        LET X == TaggedVersion(k)
        IN  /\ Len(manifests) > 0
            /\ \A i \in Dirs(manifests) : manifests[i].version = X
            /\ \A w \in WriteEvents : w < k /\ log[w].ok
            /\ \E c \in 1..(k - 1) :
                  /\ log[c].kind = "git" /\ log[c].ok
                  /\ log[c].what \in {GitCommit("chore(release): v" \o X),
                                      GitCommit("chore(release): v" \o X \o " [skip ci]")}

C24_Witness ==
    /\ TagsCreated # {}
    /\ pc = "done"
    /\ Len(manifests) = 3
    /\ \A i \in Dirs(manifests) : manifests[i].version = "2.0.0"
    /\ \E i \in Dirs(manifests) : start.manifests[i].version = "1.0.0"

\* the root manifest the operation started with exists and has a non-empty
\* version field
RootCarriesVersion == start.rootPkg.exists /\ start.rootPkg.version # ""
RootWrites == {k \in WriteEvents : log[k].what = "root package.json"}
PackageWrites == WriteEvents \ RootWrites
PastManifests == pc \in {"version_add", "version_commit", "version_tag", "done"}

\* C25: version sets the version of the root manifest to the new version
\* exactly when the root manifest exists and has a non-empty version field,
\* whatever that version was; it does so once, after every package manifest
\* is written and before any git command; a missing root manifest or one
\* without a version is not written, stays as it was and is not a cause of
\* failure.
C25_RootManifest ==
    opts.cmd = "version" =>
        /\ IF RootCarriesVersion
           THEN /\ Cardinality(RootWrites) <= 1
                /\ rootPkg \in {start.rootPkg, [start.rootPkg EXCEPT !.version = nextVer]}
                /\ (rootPkg.version = nextVer /\ nextVer # start.rootPkg.version)
                      => \E k \in RootWrites : log[k].ok
                /\ PastManifests => (rootPkg.version = nextVer /\ \E k \in RootWrites : log[k].ok)
           ELSE /\ RootWrites = {}
                /\ rootPkg = start.rootPkg
                /\ (pc = "failed" /\ err = ErrWrite)
                      => (Len(log) \in PackageWrites /\ ~ log[Len(log)].ok)
        /\ \A k \in RootWrites :
              /\ \A w \in PackageWrites : w < k /\ log[w].ok
              /\ Cardinality(PackageWrites) = Len(manifests)
              /\ \A g \in GitWrites : k < g
              /\ log[k].ok => rootPkg.version = nextVer

C25_Witness ==
    /\ pc = "done"
    /\ start.rootPkg = [exists |-> TRUE, version |-> "0.0.1"]
    /\ rootPkg.version = "1.0.1"
    /\ GitWrites # {}
    /\ Len(manifests) = 2

\* how often the name n occurs in the list l
Occurrences(l, n) == Cardinality({k \in 1..Len(l) : l[k] = n})

\* the (package, field) pairs in which a package named A lists the name B
Listings(ms, A, B) ==
    {<<i, f>> \in Dirs(ms) \X Fields : ms[i].name = A /\ B \in DOMAIN ms[i].deps[f]}

\* C26: the keys of the graph buildWorkspace returns are exactly the names
\* of the discovered packages, each once; graph[B] holds the name A once for
\* every dependency field of a package named A that has the member B as a
\* key, and nothing else; a name that is not a member is no key and adds no
\* entry; no packages give the empty graph.
C26_GraphOfWorkspace ==
    pc \in {"built", "rebuilt"} =>
        LET g == result[1]
            ms == manifests
        IN  /\ {g.keys[k] : k \in 1..Len(g.keys)} = NamesIn(ms)
            /\ \A j, k \in 1..Len(g.keys) : g.keys[j] = g.keys[k] => j = k
            /\ DOMAIN g.adj = NamesIn(ms)
            /\ ExtName \notin DOMAIN g.adj
            /\ \A B \in NamesIn(ms) :
                  /\ \A k \in 1..Len(g.adj[B]) : g.adj[B][k] \in NamesIn(ms)
                  /\ \A A \in NamesIn(ms) :
                        Occurrences(g.adj[B], A) = Cardinality(Listings(ms, A, B))
            /\ Len(ms) = 0 => (g.keys = <<>> /\ DOMAIN g.adj = {})

C26_Witness ==
    /\ pc = "built"
    /\ Len(manifests) = 3
    /\ DistinctNames(manifests)
    /\ \E A, B \in NamesIn(manifests) :
          A # B /\ Occurrences(result[1].adj[B], A) = 2

\* package i lists a workspace member
ListsMember(ms, i) == \E d \in NamesIn(ms) : Lists(ms, i, d)

\* no package with the name of package i lists a member: in-degree zero
ZeroIn(ms, i) == \A j \in Dirs(ms) : ms[j].name = ms[i].name => ~ ListsMember(ms, j)

\* how many of the packages 1..i have in-degree zero
Rank(ms, i) == Cardinality({j \in 1..i : ZeroIn(ms, j)})

\* for the name at position k of out, not of in-degree zero: the position in
\* out of its dependency that comes last, and its last place in the list of
\* dependents of that dependency
LastDependency(ms, out, k) ==
    Max({IndexOf(out, d) : d \in {e \in NamesIn(ms) : DepEdge(ms, e, out[k])}})
PlaceInList(ms, out, k) ==
    LET vs == buildWorkspace(ms).graph.adj[out[LastDependency(ms, out, k)]]
    IN  Max({j \in 1..Len(vs) : vs[j] = out[k]})

\* C27: topoSort is deterministic and keeps the input order: the names of
\* the packages with in-degree zero come first, in the order of the package
\* list; with pairwise distinct names the others follow in the order in
\* which their last dependency was emitted and, for the same last
\* dependency, in the order of its list of dependents (a first-in first-out
\* queue); a second call returns the same sequence; a workspace without
\* internal dependencies is returned in input order.
C27_StableOrder ==
    LET ms == manifests
        out == sorted.value
        m == Rank(ms, Len(ms))
    IN  /\ (pc \in {"sorted", "resorted"} /\ sorted.threw = "") =>
              /\ \A i \in Dirs(ms) : ZeroIn(ms, i) => out[Rank(ms, i)] = ms[i].name
              /\ DistinctNames(ms) =>
                    \A s, t \in (m + 1)..Len(out) :
                        s < t =>
                           /\ LastDependency(ms, out, s) < s
                           /\ \/ LastDependency(ms, out, s) < LastDependency(ms, out, t)
                              \/ /\ LastDependency(ms, out, s) = LastDependency(ms, out, t)
                                 /\ PlaceInList(ms, out, s) < PlaceInList(ms, out, t)
              /\ (\A i \in Dirs(ms) : ~ ListsMember(ms, i))
                    => out = [i \in Dirs(ms) |-> ms[i].name]
        /\ pc = "resorted" => result[1] = sorted

C27_Witness ==
    /\ pc = "resorted"
    /\ sorted.threw = ""
    /\ DistinctNames(manifests)
    /\ Len(manifests) = 3
    /\ Rank(manifests, 3) = 1
    /\ LastDependency(manifests, sorted.value, 2) = 1
    /\ LastDependency(manifests, sorted.value, 3) = 1
    /\ sorted.value # <<manifests[1].name, manifests[2].name, manifests[3].name>>

\* some package lists one workspace member in more than one field
MultiField(ms) ==
    \E i \in Dirs(ms) : \E d \in NamesIn(ms) :
        Cardinality({f \in Fields : d \in DOMAIN ms[i].deps[f]}) > 1

\* the in-degrees before the loop of topoSort and its state after the loop
DegreesBefore(ms) ==
    LET ws == buildWorkspace(ms) IN KahnInit(ws.packages, ws.graph).inDeg
StateAfter(ms) ==
    LET ws == buildWorkspace(ms) IN KahnLoop(KahnInit(ws.packages, ws.graph), ws.graph)

\* C28: on a workspace without a cycle in which a package lists one member
\* in more than one field, topoSort returns every package name exactly once,
\* each dependency before its dependent; the in-degree of a name counts
\* every recorded edge and is back at zero after the loop.
C28_RepeatedEdges ==
    LET ms == manifests
        out == sorted.value
    IN  (pc = "sorted" /\ MultiField(ms) /\ ~ HasCycle(ms)) =>
            /\ sorted.threw = ""
            /\ \A n \in NamesIn(ms) : Occurrences(out, n) = 1
            /\ \A k \in 1..Len(out) : out[k] \in NamesIn(ms)
            /\ \A d, n \in NamesIn(ms) :
                  DepEdge(ms, d, n) => IndexOf(out, d) < IndexOf(out, n)
            /\ \A n \in NamesIn(ms) :
                  /\ DegreesBefore(ms)[n]
                        = Cardinality(UNION {Listings(ms, n, d) \X {d} : d \in NamesIn(ms)})
                  /\ StateAfter(ms).inDeg[n] = 0

\* the package manifest writes of the log that failed
FailedPackageWrites == {k \in PackageWrites : ~ log[k].ok}

\* C29: when writing a package manifest fails during version, the operation
\* ends there with the error: the manifests written before carry the new
\* version, the manifest whose write failed, the manifests after it and the
\* root manifest are as they were at the start, and git add, commit and tag
\* have not been run.
C29_PartialWritesStay ==
    \A k \in FailedPackageWrites :
        LET at == log[k].dir
        IN  /\ k = Len(log)
            /\ pc = "failed" /\ err = ErrWrite
            /\ \A i \in 1..(at - 1) :
                  /\ manifests[i].version = nextVer
                  /\ \E w \in PackageWrites : log[w].dir = i /\ log[w].ok
            /\ \A i \in at..Len(manifests) : manifests[i] = start.manifests[i]
            /\ rootPkg = start.rootPkg
            /\ RootWrites = {}
            /\ GitWrites = {}

C29_Witness ==
    /\ FailedPackageWrites # {}
    /\ Len(manifests) = 3
    /\ log[Len(log)].dir = 3
    /\ manifests[1].version = "1.0.1"
    /\ manifests[2].version = "1.0.1"
    /\ manifests[3].version = "1.0.0"
    /\ rootPkg.version = "1.0.0"
    /\ ~ opts.noGitCommit

\* the positions of the first two dots of v
FirstDot(v) == CHOOSE p \in 1..Len(v) : CharAt(v, p) = "." /\ \A j \in 1..(p - 1) : CharAt(v, j) # "."
SecondDot(v) ==
    CHOOSE q \in (FirstDot(v) + 1)..Len(v) :
        CharAt(v, q) = "." /\ \A j \in (FirstDot(v) + 1)..(q - 1) : CharAt(v, j) # "."

\* v is MAJOR.MINOR.PATCH and nothing more
IsPlainVersion(v) ==
    /\ Cardinality({k \in 1..Len(v) : CharAt(v, k) = "."}) = 2
    /\ AllDigits(v, 1, FirstDot(v) - 1)
    /\ AllDigits(v, FirstDot(v) + 1, SecondDot(v) - 1)
    /\ AllDigits(v, SecondDot(v) + 1, Len(v))

\* the three numbers of a version MAJOR.MINOR.PATCH[-suffix]
Triple(v) ==
    <<Canon(DigitSeq(SubSeq(v, 1, FirstDot(v) - 1))),
      Canon(DigitSeq(SubSeq(v, FirstDot(v) + 1, SecondDot(v) - 1))),
      Canon(DigitSeq(SubSeq(v, SecondDot(v) + 1, DigitRunEnd(v, SecondDot(v) + 1))))>>

\* a < b, comparing major, then minor, then patch
TripleLess(a, b) ==
    \/ NumLess(a[1], b[1])
    \/ a[1] = b[1] /\ NumLess(a[2], b[2])
    \/ a[1] = b[1] /\ a[2] = b[2] /\ NumLess(a[3], b[3])

\* C30: in a sequence of version operations, when one has completed, all
\* package manifests carry one plain MAJOR.MINOR.PATCH version, greater
\* than the version they shared before it; an operation that follows a
\* completed one never fails the check of equal versions or the semver check.
C30_VersionsGrow ==
    /\ VersionDone =>
          /\ \A i \in Dirs(manifests) : manifests[i].version = nextVer
          /\ IsPlainVersion(nextVer)
          /\ \A b \in StartVersions : TripleLess(Triple(b), Triple(nextVer))
    /\ (Len(result) > 0 /\ pc = "failed") =>
          ~ (startsWith(err, ErrVersions) \/ startsWith(err, ErrSemver))

\* the versions of the sequence so far lie below 2^53 in every component
BelowTwo53 ==
    \A v \in StartVersions \cup {result[k] : k \in 1..Len(result)} :
        \A c \in 1..3 : NumLess(Triple(v)[c], Dec(Two53))

\* the names topoSort has enqueued so far: those emitted and those waiting
Enqueued == result.out \o result.q

\* while topoSort runs: no name was enqueued twice, no in-degree is
\* negative, and the loop has made at most one iteration per package
KahnBounded ==
    pc \in {"kahn_loop", "sorted"} =>
        /\ \A n \in NamesIn(manifests) : Occurrences(Enqueued, n) <= 1
        /\ \A n \in DOMAIN result.inDeg : result.inDeg[n] >= 0
        /\ Len(result.out) <= Len(packages)

\* C31: on packages with pairwise distinct names and any graph over their
\* names, with or without cycles, topoSort terminates (it returns or throws
\* the cycle error), every name is enqueued at most once, no in-degree
\* becomes negative and the loop runs at most once per package.
C31_TopoSortTerminates == []KahnBounded /\ <>(pc = "sorted")

C31_Witness ==
    /\ pc = "sorted"
    /\ sorted.threw = ErrCycle
    /\ Len(packages) = 3
    /\ Len(result.out) = 1
    /\ Cardinality({n \in DOMAIN result.inDeg : result.inDeg[n] = 1}) = 2

\* the git push commands of the log
Pushes == {k \in 1..Len(log) : log[k].kind = "git" /\ log[k].what = GitPush}

\* C32: publish, whether it succeeds or fails, writes no package manifest
\* and no root manifest and runs no git add, commit or tag: all it runs are
\* the branch query, publish commands and at most one git push, and every
\* manifest, the versions included, is as it was before.
C32_PublishFrame ==
    opts.cmd = "publish" =>
        /\ manifests = start.manifests
        /\ rootPkg = start.rootPkg
        /\ \A i \in Dirs(manifests) : manifests[i].version = start.manifests[i].version
        /\ WriteEvents = {}
        /\ GitWrites = {}
        /\ \A k \in 1..Len(log) :
              \/ log[k].kind \in {"read", "publish"}
              \/ log[k].kind = "git" /\ log[k].what \in {GitRevParse, GitPush}
        /\ Cardinality(Pushes) <= 1

C32_Witness ==
    /\ opts.cmd = "publish"
    /\ pc = "done"
    /\ Pushes # {}
    /\ Len(manifests) = 3
    /\ Cardinality(PublishEvents) = 3
    /\ rootPkg.exists

\* patch < minor < major
KindRank(t) == CASE t = "patch" -> 1 [] t = "minor" -> 2 [] t = "major" -> 3

\* C33: the bump kind derived from the subjects of the commits since the
\* tag is the same for every rearrangement of the subjects, and with one
\* more subject added it is never lower (patch < minor < major).
C33_ClassificationAggregates ==
    pc = "reclassified" =>
        /\ result[2].how = "rearranged" => result[2].type = result[1].type
        /\ result[2].how = "extended" => KindRank(result[1].type) <= KindRank(result[2].type)

\* C34: version on a workspace without packages fails with the
\* inconsistent-versions error (which then lists no version) and changes
\* nothing: no manifest is written, the root manifest keeps its version,
\* and nothing is staged, committed or tagged.
C34_EmptyWorkspaceFails ==
    (opts.cmd = "version" /\ VersionEntered /\ Len(start.manifests) = 0) =>
        /\ pc = "failed"
        /\ err = ErrVersions
        /\ Untouched

C34_Witness ==
    /\ opts.cmd = "version"
    /\ opts.type = "auto"
    /\ VersionEntered
    /\ Len(start.manifests) = 0
    /\ start.rootPkg = [exists |-> TRUE, version |-> "1.0.0"]
    /\ rootPkg.version = "1.0.0"
    /\ pc = "failed"

\* C35: after a successful publish the registry publish command has run
\* exactly once in the directory of every discovered manifest, also when
\* two manifests declare the same name.
C35_EveryDirectoryPublishedOnce ==
    (opts.cmd = "publish" /\ pc = "done") =>
        \A d \in 1..Len(manifests) :
            Cardinality({k \in PublishEvents : log[k].dir = d}) = 1

====
